---------------------------- MODULE Spec2Model ----------------------------
(***************************************************************************)
(* Model of the community-storage node (server/src): the filesystem blob   *)
(* store with its quota, the upload handler and its authentication, the    *)
(* P2P event loop with its shared state, the discovery loop and the        *)
(* one-shot registration task.                                             *)
(*                                                                         *)
(* Strings that the code inspects character by character (namespaces, ids, *)
(* file names) are sequences of one-character strings.  Option<T> is a     *)
(* sequence of length 0 (None) or 1 (Some).  Result<T, E> is a record      *)
(* [ok |-> TRUE, val |-> v] or [ok |-> FALSE, err |-> kind].               *)
(***************************************************************************)
EXTENDS Integers, Sequences, FiniteSets, TLC

VARIABLES
    storage_limit_bytes,  \* Storage.storage_limit_bytes
    dirs,                 \* namespace directories under Storage.base
    files,                \* <<namespace dir, file name>> -> file content
    uuid_count,           \* number of Uuid::new_v4() tokens drawn so far
    last,                 \* the last Storage call: its arguments and result
    \* concurrent upload requests, each inside Storage::put
    t_pc,                 \* task -> the statement of put it is at
    t_req,                \* task -> the arguments of its put
    t_cur,                \* task -> `current`, the usage it read
    t_id,                 \* task -> `id`, once chosen
    t_res,                \* task -> what its put returned
    \* upload authentication
    au_in,                \* the arguments of a verify_upload_signature call
    au_res,               \* what the call returned
    \* calls of the pure helpers (sanitize_segment, Args)
    call_in,              \* the arguments drawn for the call
    call_out,             \* what the call returned, None before it
    \* the upload handler
    upload_auth,          \* AppState.upload_auth is Some
    up_last,              \* the last HTTP request handled: request, calls made, response
    \* the P2P subsystem and the tasks around it
    env,                  \* configuration and surroundings of this run (fixed)
    rw,                   \* the tokio RwLock around P2pState
    listen_addrs,         \* P2pState.listen_addrs
    connected_peers,      \* P2pState.connected_peers
    discovered_addrs,     \* the shared Vec of non-loopback listen addresses
    cmd_chan,             \* dial commands in the mpsc channel
    pending_listen,       \* listen addresses the transport has yet to report
    swarm_open,           \* peer -> number of connections the swarm has open to it
    dials,                \* the addresses passed to swarm.dial, in order
    peers_to_dial,        \* main's list of startup peers, as handed to p2p::spawn
    ev_pc,                \* event loop: where it is
    ev_event,             \* event loop: the swarm event it is handling
    disc_pc,              \* discovery loop: where it is
    disc_todo,            \* discovery loop: addresses of this cycle still to visit
    known_addrs,          \* discovery loop: known_addrs
    reg_pc,               \* registration task: where it is
    reg_multiaddrs,       \* registration task: multiaddrs
    reg_elapsed,          \* ms since the registration task started (its clock)
    reg_wake_at,          \* registration task: when its sleep ends
    first_listen_late,    \* was the first listen address stored after the deadline
    reg_backoff,          \* registration task: backoff, in ms
    reg_ops,              \* registry calls the registration task made, in order
    reg_registered,       \* registration task: `registered`, once it is bound
    published,            \* what the registry holds for this node
    peers_pc,             \* a GET /peers request: where it is
    peers_resp            \* the last GET /peers response

storeVars == <<storage_limit_bytes, dirs, files, uuid_count, last>>
taskVars == <<t_pc, t_req, t_cur, t_id, t_res>>
authVars == <<au_in, au_res>>
pureVars == <<call_in, call_out>>
uploadVars == <<upload_auth, up_last>>

p2pVars == <<env, rw, first_listen_late, listen_addrs, connected_peers, discovered_addrs,
             cmd_chan,
             pending_listen, swarm_open, dials, peers_to_dial, ev_pc, ev_event, disc_pc, disc_todo,
             known_addrs, reg_pc, reg_multiaddrs, reg_elapsed, reg_wake_at, reg_backoff, reg_ops,
             reg_registered, published, peers_pc, peers_resp>>

vars == <<storeVars, taskVars, authVars, pureVars, uploadVars, p2pVars>>

\* what the sequential store calls leave alone
notStoreVars == <<taskVars, authVars, pureVars, uploadVars, p2pVars>>

----------------------------------------------------------------------------
(* Option and Result *)

None == <<>>
Some(x) == <<x>>
Ok(v) == [ok |-> TRUE, val |-> v]
Err(kind) == [ok |-> FALSE, err |-> kind]

----------------------------------------------------------------------------
(* Bounds and input sets *)

\* payloads handed to put: empty, and two of different length and content
Payloads == {<<>>, <<0>>, <<1, 1>>}

\* namespace strings handed to put/get/list: empty, and one to be sanitized
NamespaceInputs == {<<>>, <<"d", ".">>}
\* id strings: empty, plain, and one with a character outside the alphabet
IdInputs == {<<>>, <<"a">>, <<"a", ".">>}
IdHintInputs == {None} \cup {Some(s) : s \in IdInputs}
\* (min_replication, uploader_address) pairs handed to put
MetaInputs == {<<1, None>>, <<2, Some("AU1")>>}
\* ceilings the store is constructed with (Storage::new(base, limit))
StorageLimits == {1, 30}

\* number of upload requests in flight at once
NumTasks == 2
Tasks == 1..NumTasks
\* what the concurrent requests put: a generated id or the same hinted id
TaskRequests ==
    {[namespace |-> <<"d", ".">>, id_hint |-> h, data |-> d, meta |-> <<1, None>>] :
        h \in {None, Some(<<"a">>)}, d \in Payloads}
NoRequest == [namespace |-> <<>>, id_hint |-> None, data |-> <<>>, meta |-> <<1, None>>]

----------------------------------------------------------------------------
(* storage.rs: constants and helpers *)

MIN_REPLICATION_MIN == 1
MIN_REPLICATION_MAX == 32

\* stand-in for char::is_ascii_alphanumeric on the characters the model uses
AsciiAlphanumeric ==
    {"a", "d", "e", "f", "l", "m", "t", "u", "0", "1", "2", "3", "4", "5", "6", "7", "8", "9"}

is_ascii_alphanumeric(c) == c \in AsciiAlphanumeric

\* a sanitizer that lets the dot through
sanitize_segment_keeping_dots(s) ==
    [i \in 1..Len(s) |->
        IF is_ascii_alphanumeric(s[i]) \/ s[i] = "-" \/ s[i] = "_" \/ s[i] = "."
        THEN s[i] ELSE "_"]

sanitize_segment(s) ==
    [i \in 1..Len(s) |->
        IF is_ascii_alphanumeric(s[i]) \/ s[i] = "-" \/ s[i] = "_"
        THEN s[i] ELSE "_"]

DotMeta == <<".", "m", "e", "t", "a">>

\* file name of the sidecar of `id` inside its namespace directory
meta_path_for_id(id) == id \o DotMeta

ends_with(name, suffix) ==
    /\ Len(name) >= Len(suffix)
    /\ SubSeq(name, Len(name) - Len(suffix) + 1, Len(name)) = suffix

\* Uuid::new_v4().to_string(): a fresh token of hex digits and dashes
DigitChar == <<"0", "1", "2", "3", "4", "5", "6", "7", "8", "9">>
UuidToken(n) == <<"u", "-", DigitChar[n + 1]>>

\* file contents: a payload, or the JSON text of a BlobMeta
DataFile(bytes) == [kind |-> "data", bytes |-> bytes]
JsonFile(meta) == [kind |-> "json", meta |-> meta]

BlobMeta(min_replication, uploader_address) ==
    [min_replication |-> min_replication, uploader_address |-> uploader_address]

DefaultBlobMeta == BlobMeta(MIN_REPLICATION_MIN, None)

DecimalDigits(n) == IF n < 10 THEN 1 ELSE IF n < 100 THEN 2 ELSE 3

\* byte length of serde_json::to_string(&BlobMeta):
\*   {"min_replication":N}   or   {"min_replication":N,"uploader_address":"X"}
BlobMetaJsonLen(meta) ==
    20 + DecimalDigits(meta.min_replication)
       + (IF meta.uploader_address = None THEN 0
          ELSE 22 + Len(meta.uploader_address[1]))

FileLen(content) ==
    IF content.kind = "data" THEN Len(content.bytes)
    ELSE BlobMetaJsonLen(content.meta)

RECURSIVE SumLen(_, _)
SumLen(fs, paths) ==
    IF paths = {} THEN 0
    ELSE LET p == CHOOSE q \in paths : TRUE
         IN FileLen(fs[p]) + SumLen(fs, paths \ {p})

\* Storage::total_size: every file under base counts, sidecars included
total_size(fs) == SumLen(fs, DOMAIN fs)

read_blob_meta(fs, ns, id) ==
    LET p == <<ns, meta_path_for_id(id)>>
    IN IF p \notin DOMAIN fs THEN DefaultBlobMeta
       ELSE IF fs[p].kind # "json" THEN DefaultBlobMeta
       ELSE fs[p].meta

\* Storage::ensure_namespace: the directory it creates, or InvalidInput
ensure_namespace(namespace) ==
    LET ns == sanitize_segment(namespace)
    IN IF ns = <<>> THEN Err("InvalidInput") ELSE Ok(ns)

\* fs::write: create or truncate
fs_write(fs, path, content) ==
    [p \in DOMAIN fs \cup {path} |-> IF p = path THEN content ELSE fs[p]]

\* the id put stores under: the sanitized hint, or a uuid when absent or empty
put_id(id_hint, uuid) ==
    IF id_hint # None /\ sanitize_segment(id_hint[1]) # <<>>
    THEN sanitize_segment(id_hint[1])
    ELSE uuid

\* an admission check that compares the usage read alone, without the upload
quota_exceeded_ignoring_upload(current, len, limit) == current > limit

\* the admission check of put: TRUE when the upload is rejected
quota_exceeded(current, len, limit) == current + len > limit

\* Storage::put as the code orders it: admission check, then ensure_namespace,
\* then the payload, then the sidecar (d = dirs, fs = files)
put_check_first(limit, d, fs, namespace, id_hint, data, min_replication, uploader_address, uuid) ==
    LET current == total_size(fs)
    IN IF quota_exceeded(current, Len(data), limit)
       THEN [res |-> Err("StorageLimitExceeded"), dirs |-> d, files |-> fs]
       ELSE LET nsr == ensure_namespace(namespace)
            IN IF ~nsr.ok
               THEN [res |-> Err("InvalidInput"), dirs |-> d, files |-> fs]
               ELSE LET ns == nsr.val
                        id == put_id(id_hint, uuid)
                        fs1 == fs_write(fs, <<ns, id>>, DataFile(data))
                        fs2 == fs_write(fs1, <<ns, meta_path_for_id(id)>>,
                                   JsonFile(BlobMeta(min_replication, uploader_address)))
                    IN [res |-> Ok(id), dirs |-> d \cup {ns}, files |-> fs2]

\* a put that creates the namespace directory before the admission check
put_mkdir_first(limit, d, fs, namespace, id_hint, data, min_replication, uploader_address, uuid) ==
    LET nsr == ensure_namespace(namespace)
        r == put_check_first(limit, d, fs, namespace, id_hint, data,
                             min_replication, uploader_address, uuid)
    IN IF nsr.ok THEN [r EXCEPT !.dirs = d \cup {nsr.val}] ELSE r

\* Storage::put
put(limit, d, fs, namespace, id_hint, data, min_replication, uploader_address, uuid) ==
    put_check_first(limit, d, fs, namespace, id_hint, data,
                    min_replication, uploader_address, uuid)

\* a get that looks the id up as given, without sanitizing it
get_raw_id(fs, namespace, id) ==
    LET ns == sanitize_segment(namespace)
    IN IF ns = <<>> \/ id = <<>> THEN Err("InvalidInput")
       ELSE IF <<ns, id>> \notin DOMAIN fs THEN Err("NotFound")
       ELSE Ok(fs[<<ns, id>>].bytes)

\* a get that reads the path without testing the segments for emptiness
get_unchecked(fs, namespace, id) ==
    LET ns == sanitize_segment(namespace)
        sid == sanitize_segment(id)
    IN IF <<ns, sid>> \notin DOMAIN fs THEN Err("NotFound")
       ELSE Ok(fs[<<ns, sid>>].bytes)

\* Storage::get: both segments sanitized, then fs::read
\* (a sanitized id has no '.', so the path never names a sidecar)
get(fs, namespace, id) ==
    LET ns == sanitize_segment(namespace)
        sid == sanitize_segment(id)
    IN IF ns = <<>> \/ sid = <<>> THEN Err("InvalidInput")
       ELSE IF <<ns, sid>> \notin DOMAIN fs THEN Err("NotFound")
       ELSE Ok(fs[<<ns, sid>>].bytes)

IndexEntry(fs, ns, id) ==
    [id |-> id, namespace |-> ns, size |-> FileLen(fs[<<ns, id>>]),
     min_replication |-> read_blob_meta(fs, ns, id).min_replication,
     uploader_address |-> read_blob_meta(fs, ns, id).uploader_address]

\* a listing that does not skip the sidecars
list_in_dir_with_sidecars(fs, ns) ==
    {IndexEntry(fs, ns, p[2]) : p \in {q \in DOMAIN fs : q[1] = ns}}

\* Storage::list_in_dir: one entry per file whose name does not end in ".meta"
list_in_dir(fs, ns) ==
    {IndexEntry(fs, ns, p[2]) : p \in {q \in DOMAIN fs : q[1] = ns /\ ~ends_with(q[2], DotMeta)}}

\* Storage::list (the Vec in directory order is taken as a set)
list(d, fs, namespace) ==
    IF namespace # None
    THEN LET ns == sanitize_segment(namespace[1])
         IN IF ns = <<>> \/ ns \notin d THEN {} ELSE list_in_dir(fs, ns)
    ELSE UNION {list_in_dir(fs, ns) : ns \in d}

----------------------------------------------------------------------------
(* p2p.rs and main.rs: the P2P subsystem as it is right after p2p::spawn *)

\* an address text is the sequence of the components between its slashes
Loopback == <<"ip4", "127.0.0.1", "tcp", "4001">>
Lan == <<"ip4", "10.0.0.1", "tcp", "4001">>
Loopback6 == <<"ip6", "::1", "tcp", "4001">>
LanQuic == <<"ip4", "10.0.0.1", "udp", "4001", "quic-v1">>
PeerAddr1 == <<"ip4", "A1">>
PeerAddr2 == <<"ip4", "A2">>
PeerAddr3 == <<"ip4", "A3">>
ProtocolNames == {"ip4", "ip6", "dns", "tcp", "udp", "quic-v1", "p2p"}

LocalPeerId == "PEER0"
\* config.massa_address
MassaAddress == "AU0"

\* a parsed Multiaddr, its text, and the text with the peer id appended
Multiaddr(text) == [components |-> text]
parse_multiaddr(text) ==
    IF text = <<>> \/ text[1] \in ProtocolNames
    THEN Ok(Multiaddr(text)) ELSE Err("invalid multiaddr")
to_string(m) == m.components
with_peer_id(text, peer_id) == text \o <<"p2p", peer_id>>

\* an endpoint text "http://<host>:<port>"; the empty text has neither
Endpoint(host, port) == [host |-> host, port |-> port]
EmptyEndpoint == Endpoint("", "")

\* the registry's entry for a node that is not registered
Unregistered == [registered |-> FALSE, endpoint |-> EmptyEndpoint, p2p_addrs |-> <<>>]
\* an entry left by an earlier run of the node
Stale == [registered |-> TRUE, endpoint |-> Endpoint("9.9.9.9", "4343"),
          p2p_addrs |-> <<>>]

\* the state of the wait loop's clock, from main.rs
BACKOFF_INITIAL_MS == 500
MAX_BACKOFF_MS == 8000
DEADLINE_MS == 60000

Environment(providers, peers, listen, tcp_listen_ok, grpc, public_endpoint, local_ip, published0) ==
    [providers |-> providers, peers |-> peers, listen |-> listen,
     tcp_listen_ok |-> tcp_listen_ok, grpc |-> grpc,
     public_endpoint |-> public_endpoint, local_ip |-> local_ip,
     published0 |-> published0, bootstrap_peers |-> <<>>]

\* no other provider, no peer, one listen address, no gRPC client
QuietEnv ==
    Environment(<<>>, {}, <<Lan>>, TRUE, FALSE, Endpoint("1.2.3.4", "4343"), None,
                Unregistered)

RwFree == [readers |-> {}, writer |-> FALSE, queue |-> <<>>]

NoEvent == [kind |-> "none"]
NoResponse == [status |-> 0]

\* a provider entry carries the identity of another node
is_self_never(massa_address, provider_address) == FALSE

\* config.massa_address == provider.address
is_self(massa_address, provider_address) == massa_address = provider_address

\* what get_all_providers returns when the entry of the local node reads own
Providers(others, own) ==
    others \o (IF own.registered
               THEN <<[address |-> MassaAddress, p2p_addrs |-> own.p2p_addrs]>>
               ELSE <<>>)

\* the registry's answers to one get_all_providers: whether the address list
\* could be read, and the providers whose metadata could not (at most one)
Unreadables(providers) ==
    {{}} \cup {{providers[i].address} : i \in 1..Len(providers)}

\* a listing that ends at the first provider whose metadata cannot be read
get_all_providers_stopping(registered_ok, providers, unreadable) ==
    IF ~registered_ok THEN Err("rpc")
    ELSE Ok(SubSeq(providers, 1,
                   Len(providers)
                     - Cardinality({i \in 1..Len(providers) :
                                      \E j \in 1..i : providers[j].address \in unreadable})))

\* MassaClient::get_all_providers: Err when the address list cannot be read,
\* else the providers whose metadata could be read, in order
get_all_providers(registered_ok, providers, unreadable) ==
    IF ~registered_ok THEN Err("rpc")
    ELSE Ok(SelectSeq(providers, LAMBDA x : x.address \notin unreadable))

\* the two nested for loops as one list of (provider, addr) visits
RECURSIVE Visits(_)
Visits(providers) ==
    IF providers = <<>> THEN <<>>
    ELSE [i \in 1..Len(Head(providers).p2p_addrs) |->
             [provider |-> Head(providers).address, addr |-> Head(providers).p2p_addrs[i]]]
         \o Visits(Tail(providers))

\* main's startup pass: peers_to_dial after the visits of the providers
RECURSIVE startup_peers(_, _)
startup_peers(peers, visits) ==
    IF visits = <<>> THEN peers
    ELSE LET h == Head(visits)
             listed == \E i \in 1..Len(peers) : peers[i] = h.addr
         IN startup_peers(IF is_self(MassaAddress, h.provider) \/ h.addr = <<>> \/ listed
                          THEN peers ELSE Append(peers, h.addr),
                          Tail(visits))

\* run's "Dial initial peers": the addresses that parse go to swarm.dial
initial_dials(peers) == SelectSeq(peers, LAMBDA a : parse_multiaddr(a).ok)

\* main up to p2p::spawn, run up to its event loop, and the tasks main spawns
\* next, before any of them has run
P2pStart(e) ==
    /\ env = e
    /\ \E ok \in BOOLEAN, u \in Unreadables(Providers(e.providers, e.published0)) :
          \E r \in {get_all_providers(ok, Providers(e.providers, e.published0), u)} :
             peers_to_dial = IF r.ok
                             THEN startup_peers(e.bootstrap_peers, Visits(r.val))
                             ELSE e.bootstrap_peers
    /\ rw = RwFree
    /\ listen_addrs = <<>>
    /\ connected_peers = {}
    /\ discovered_addrs = <<>>
    /\ cmd_chan = <<>>
    /\ pending_listen = IF e.tcp_listen_ok THEN e.listen ELSE <<>>
    /\ swarm_open = [p \in e.peers |-> 0]
    /\ dials = IF e.tcp_listen_ok THEN initial_dials(peers_to_dial) ELSE <<>>
    /\ ev_pc = IF e.tcp_listen_ok THEN "select" ELSE "failed"
    /\ ev_event = NoEvent
    /\ disc_pc = "query"
    /\ disc_todo = <<>>
    /\ known_addrs = {}
    /\ reg_pc = IF e.grpc THEN "poll" ELSE "absent"
    /\ reg_multiaddrs = <<>>
    /\ reg_elapsed = 0
    /\ reg_wake_at = 0
    /\ first_listen_late = None
    /\ reg_backoff = BACKOFF_INITIAL_MS
    /\ reg_ops = <<>>
    /\ reg_registered = None
    /\ published = e.published0
    /\ peers_pc = "idle"
    /\ peers_resp = NoResponse

InitP2pQuiet == P2pStart(QuietEnv)

----------------------------------------------------------------------------
(* Sequential use of the store: one call at a time *)

InitTasks ==
    /\ t_pc = [t \in Tasks |-> "idle"]
    /\ t_req = [t \in Tasks |-> NoRequest]
    /\ t_cur = [t \in Tasks |-> 0]
    /\ t_id = [t \in Tasks |-> <<>>]
    /\ t_res = [t \in Tasks |-> Err("pending")]

InitStoreWith(limits) ==
    /\ storage_limit_bytes \in limits
    /\ dirs = {}
    /\ files = <<>>
    /\ uuid_count = 0
    /\ last = [op |-> "new"]

\* Storage::new on an empty directory, with any of the ceilings
InitStore == InitStoreWith(StorageLimits)

\* bytes of the stored payloads (sidecars not counted)
PayloadBytes(fs) == SumLen(fs, {p \in DOMAIN fs : fs[p].kind = "data"})

\* one call of put; `last` keeps the call, its result and the payload bytes
\* the store held when it was made
Put(namespace, id_hint, data, meta) ==
    /\ \E r \in {put(storage_limit_bytes, dirs, files, namespace, id_hint, data,
                      meta[1], meta[2], UuidToken(uuid_count))} :
          /\ dirs' = r.dirs
          /\ files' = r.files
          /\ uuid_count' = IF r.res.ok /\ r.res.val = UuidToken(uuid_count)
                           THEN uuid_count + 1 ELSE uuid_count
          /\ last' = [op |-> "put", namespace |-> namespace, id_hint |-> id_hint,
                      data |-> data, meta |-> meta, res |-> r.res,
                      payload_before |-> PayloadBytes(files)]
    /\ UNCHANGED storage_limit_bytes
    /\ UNCHANGED notStoreVars

Get(namespace, id) ==
    /\ last' = [op |-> "get", namespace |-> namespace, id |-> id,
                res |-> get(files, namespace, id)]
    /\ UNCHANGED <<storage_limit_bytes, dirs, files, uuid_count>>
    /\ UNCHANGED notStoreVars

List(namespace) ==
    /\ last' = [op |-> "list", namespace |-> namespace,
                res |-> Ok(list(dirs, files, namespace))]
    /\ UNCHANGED <<storage_limit_bytes, dirs, files, uuid_count>>
    /\ UNCHANGED notStoreVars

\* the uuid tokens put has returned so far (a caller can pass them to get)
IssuedUuids == {UuidToken(n) : n \in 0..(uuid_count - 1)}

InitAuth ==
    /\ au_in = [op |-> "none"]
    /\ au_res = Err("pending")

\* no helper call is under way
InitPure ==
    /\ call_in = [op |-> "none"]
    /\ call_out = None

\* main always builds the router with upload authentication
InitUpload ==
    /\ upload_auth = TRUE
    /\ up_last = [op |-> "none"]

Init == InitStore /\ InitTasks /\ InitAuth /\ InitPure /\ InitUpload /\ InitP2pQuiet

StoreNext ==
    \/ \E ns \in NamespaceInputs, h \in IdHintInputs, d \in Payloads, m \in MetaInputs :
          Put(ns, h, d, m)
    \/ \E ns \in NamespaceInputs, id \in IdInputs \cup IssuedUuids : Get(ns, id)
    \/ \E ns \in {None} \cup {Some(n) : n \in NamespaceInputs} : List(ns)

Spec == Init /\ [][StoreNext]_vars

----------------------------------------------------------------------------
(* Concurrent upload requests: Storage::put statement by statement.  The     *)
(* handlers run on a multi-threaded runtime and put takes no lock, so the   *)
(* statements of two puts interleave freely.                                *)

\* let current = self.total_size()?;
PutReadUsage(t, req) ==
    /\ t_pc[t] = "idle"
    /\ t_req' = [t_req EXCEPT ![t] = req]
    /\ t_cur' = [t_cur EXCEPT ![t] = total_size(files)]
    /\ t_pc' = [t_pc EXCEPT ![t] = "check"]
    /\ UNCHANGED <<storeVars, t_id, t_res, authVars, pureVars, uploadVars, p2pVars>>

\* if new_total > self.storage_limit_bytes { return Err(..) }
PutAdmission(t) ==
    /\ t_pc[t] = "check"
    /\ IF quota_exceeded(t_cur[t], Len(t_req[t].data), storage_limit_bytes)
       THEN /\ t_pc' = [t_pc EXCEPT ![t] = "done"]
            /\ t_res' = [t_res EXCEPT ![t] = Err("StorageLimitExceeded")]
       ELSE /\ t_pc' = [t_pc EXCEPT ![t] = "mkdir"]
            /\ UNCHANGED t_res
    /\ UNCHANGED <<storeVars, t_req, t_cur, t_id, authVars, pureVars, uploadVars, p2pVars>>

\* let ns_path = self.ensure_namespace(namespace)?; let id = ..;
PutEnsureNamespace(t) ==
    /\ t_pc[t] = "mkdir"
    /\ LET nsr == ensure_namespace(t_req[t].namespace)
           id == put_id(t_req[t].id_hint, UuidToken(uuid_count))
       IN IF ~nsr.ok
          THEN /\ t_pc' = [t_pc EXCEPT ![t] = "done"]
               /\ t_res' = [t_res EXCEPT ![t] = Err("InvalidInput")]
               /\ UNCHANGED <<dirs, uuid_count, t_id>>
          ELSE /\ dirs' = dirs \cup {nsr.val}
               /\ t_id' = [t_id EXCEPT ![t] = id]
               /\ uuid_count' = IF id = UuidToken(uuid_count)
                                THEN uuid_count + 1 ELSE uuid_count
               /\ t_pc' = [t_pc EXCEPT ![t] = "payload"]
               /\ UNCHANGED t_res
    /\ UNCHANGED <<storage_limit_bytes, files, last, t_req, t_cur, authVars, pureVars, uploadVars, p2pVars>>

\* fs::write(&path, data)?;
PutWritePayload(t) ==
    /\ t_pc[t] = "payload"
    /\ files' = fs_write(files, <<sanitize_segment(t_req[t].namespace), t_id[t]>>,
                         DataFile(t_req[t].data))
    /\ t_pc' = [t_pc EXCEPT ![t] = "sidecar"]
    /\ UNCHANGED <<storage_limit_bytes, dirs, uuid_count, last, t_req, t_cur, t_id, t_res>>
    /\ UNCHANGED <<authVars, pureVars, uploadVars, p2pVars>>

\* fs::write(meta_path, ..)?; Ok(id)
PutWriteSidecar(t) ==
    /\ t_pc[t] = "sidecar"
    /\ files' = fs_write(files,
                    <<sanitize_segment(t_req[t].namespace), meta_path_for_id(t_id[t])>>,
                    JsonFile(BlobMeta(t_req[t].meta[1], t_req[t].meta[2])))
    /\ t_pc' = [t_pc EXCEPT ![t] = "done"]
    /\ t_res' = [t_res EXCEPT ![t] = Ok(t_id[t])]
    /\ UNCHANGED <<storage_limit_bytes, dirs, uuid_count, last, t_req, t_cur, t_id>>
    /\ UNCHANGED <<authVars, pureVars, uploadVars, p2pVars>>

ConcNext ==
    \/ \E t \in Tasks, req \in TaskRequests : PutReadUsage(t, req)
    \/ \E t \in Tasks : PutAdmission(t)
    \/ \E t \in Tasks : PutEnsureNamespace(t)
    \/ \E t \in Tasks : PutWritePayload(t)
    \/ \E t \in Tasks : PutWriteSidecar(t)

\* the store starts empty; every request runs one put
SpecConc == Init /\ [][ConcNext]_vars

\* task t has passed the admission check of its put
Admitted(t) == t_pc[t] \in {"mkdir", "payload", "sidecar"} \/ (t_pc[t] = "done" /\ t_res[t].ok)

\* C2: puts that run concurrently can both pass the admission check before
\* either's bytes are counted and leave the stored bytes above the ceiling.
\* Every admitted put has passed its own check against the usage it read, and
\* the stored payload bytes exceed the ceiling only when at least two requests
\* were admitted; C2_Witness is the interleaving the claim describes.
C2_CeilingBrokenOnlyByOverlap ==
    /\ \A t \in Tasks :
          Admitted(t) => t_cur[t] + Len(t_req[t].data) <= storage_limit_bytes
    /\ PayloadBytes(files) > storage_limit_bytes
          => \E t1, t2 \in Tasks : t1 # t2 /\ Admitted(t1) /\ Admitted(t2)

\* two puts have returned Ok, each admitted on a reading of the empty store,
\* and the payload bytes they stored exceed the ceiling
C2_Witness ==
    \E t1, t2 \in Tasks :
        /\ t1 # t2
        /\ t_pc[t1] = "done" /\ t_res[t1].ok /\ t_cur[t1] = 0
        /\ t_pc[t2] = "done" /\ t_res[t2].ok /\ t_cur[t2] = 0
        /\ PayloadBytes(files) > storage_limit_bytes

----------------------------------------------------------------------------
(* Claims about the store under sequential calls (Spec) *)

\* what a caller can observe of the store: usage, the full listing, every blob
Observable(d, fs) ==
    [total |-> total_size(fs),
     listing |-> list(d, fs, None),
     blobs |-> [q \in {<<ns, id>> : ns \in NamespaceInputs,
                                   id \in IdInputs \cup IssuedUuids} |->
                   get(fs, q[1], q[2])]]

\* C1: for a store that starts empty, after any sequence of sequential put
\* calls, accepted or rejected, total_size() is never greater than the ceiling.
C1_TotalSizeWithinCeiling == total_size(files) <= storage_limit_bytes

\* C3: a put rejected by the admission check changes nothing: no payload, no
\* sidecar and no namespace directory is written, and total_size(), list(None)
\* and get of every blob answer as before.
C3_RejectedPutChangesNothing ==
    [][(last'.op = "put" /\ last'.res = Err("StorageLimitExceeded"))
        => /\ files' = files
           /\ dirs' = dirs
           /\ Observable(dirs', files') = Observable(dirs, files)]_vars

\* a put was rejected for quota while blobs are stored
C3_Witness ==
    /\ last.op = "put"
    /\ last.res = Err("StorageLimitExceeded")
    /\ \E p \in DOMAIN files : files[p].kind = "data" /\ files[p].bytes # <<>>

\* C7: once a put has stored bytes under (namespace, id), every later get of
\* it returns those bytes, whatever put, get and list calls follow.
C7_BlobImmutable ==
    [][\A ns \in NamespaceInputs, id \in IdInputs \cup IssuedUuids :
          get(files, ns, id).ok => get(files', ns, id) = get(files, ns, id)]_vars

\* C8 as claimed: after a successful put, get of the returned id returns the
\* bytes, and so does get of the id hint as given, for every hint.
C8_RoundTripEveryHint ==
    (last.op = "put" /\ last.res.ok)
        => /\ get(files, last.namespace, last.res.val) = Ok(last.data)
           /\ last.id_hint # None
                 => get(files, last.namespace, last.id_hint[1]) = Ok(last.data)

\* C8 as amended: after a successful put, get of the returned id returns the
\* bytes, and so does get of the id hint as given when the hint is not empty.
C8_RoundTrip ==
    (last.op = "put" /\ last.res.ok)
        => /\ get(files, last.namespace, last.res.val) = Ok(last.data)
           /\ (last.id_hint # None /\ last.id_hint[1] # <<>>)
                 => get(files, last.namespace, last.id_hint[1]) = Ok(last.data)

\* a put with a hint that sanitization changes has stored a non-empty payload
C8_Witness ==
    /\ last.op = "put"
    /\ last.res.ok
    /\ last.id_hint # None
    /\ last.id_hint[1] # <<>>
    /\ last.res.val # last.id_hint[1]
    /\ last.data # <<>>

----------------------------------------------------------------------------
(* auth.rs: upload authentication.                                          *)
(*                                                                         *)
(* Ed25519 and Blake3 are ideal: a digest names the bytes it was computed  *)
(* from, and a 64-byte signature value names the key and the message it    *)
(* was made with, plus whether any of its bits was changed afterwards.     *)
(* A Base58 text is the bytes it decodes to: a version byte, then a        *)
(* payload of `len` bytes whose leading part is `raw` and whose trailing   *)
(* 4 bytes, when present, are the checksum `tail`.                         *)

KeyIds == {"K1", "K2"}
Bodies == {<<0>>, <<1, 1>>}

blake3_hash(data) == <<"blake3", data>>

\* SigningKey::sign: the signature of `key` over `msg`
Sign(key, msg) == [signer |-> key, msg |-> msg, flipped |-> FALSE]
\* the same 64 bytes with one bit flipped
FlipBit(sig) == [sig EXCEPT !.flipped = TRUE]

\* VerifyingKey::verify
ed25519_verify(key, msg, sig) == ~sig.flipped /\ sig.signer = key /\ sig.msg = msg

\* a check of the signature that does not look at the message
ed25519_verify_any_message(key, msg, sig) == ~sig.flipped /\ sig.signer = key

\* VerifyingKey::from_bytes: 32 bytes that are a curve point
verifying_key_from_bytes(raw) == IF raw \in KeyIds THEN Ok(raw) ELSE Err("InvalidPublicKey")

\* decoded bytes of a text
Versioned(version, len, raw, tail) ==
    [empty |-> FALSE, version |-> version, len |-> len, raw |-> raw, tail |-> tail]
EmptyBytes == [empty |-> TRUE]
\* a header text: valid Base58 or not, with a leading 'P' or not
Text(b58, p_prefix, bytes) == [b58 |-> b58, p_prefix |-> p_prefix, bytes |-> bytes]

\* tests::encode_versioned_base58: version byte 0, then the payload
encode_versioned_base58(raw, len) == Text(TRUE, FALSE, Versioned(0, len, raw, "none"))
\* massa-web3 Base58Check: version byte 0, the payload, a 4-byte checksum
encode_base58check(raw, len) == Text(TRUE, FALSE, Versioned(0, len + 4, raw, "good"))
\* massa-web3 public key text: 'P' then Base58Check
encode_public_key(raw) == [encode_base58check(raw, 32) EXCEPT !.p_prefix = TRUE]

strip_version_prefix(bytes) ==
    IF bytes.empty THEN None
    ELSE IF bytes.version < 128 THEN Some(bytes)
    ELSE None

base58_decode_versioned(encoded, expected_tail_len) ==
    IF ~encoded.b58 THEN Err("InvalidBase58")
    ELSE LET payload == strip_version_prefix(encoded.bytes)
         IN IF payload = None THEN Err("InvalidPublicKey")
            ELSE IF payload[1].len = expected_tail_len THEN Ok(payload[1].raw)
            ELSE IF expected_tail_len = 32 /\ payload[1].len = 36 THEN Ok(payload[1].raw)
            ELSE IF expected_tail_len = 64 /\ payload[1].len = 68 THEN Ok(payload[1].raw)
            ELSE IF expected_tail_len = 32 THEN Err("InvalidPublicKey")
            ELSE Err("InvalidSignature")

\* verify_upload_signature, with the Ed25519 check as a parameter
verify_with(check(_, _, _), body, massa_address, signature_b58, public_key_b58) ==
    LET pk_str == [public_key_b58 EXCEPT !.p_prefix = FALSE]
        pubkey_bytes == base58_decode_versioned(pk_str, 32)
        sig_bytes == base58_decode_versioned(signature_b58, 64)
    IN IF ~pubkey_bytes.ok THEN Err("InvalidPublicKey")
       ELSE IF ~sig_bytes.ok THEN Err("InvalidSignature")
       ELSE LET verifying_key == verifying_key_from_bytes(pubkey_bytes.val)
            IN IF ~verifying_key.ok THEN Err("InvalidPublicKey")
               ELSE IF check(verifying_key.val, blake3_hash(body), sig_bytes.val)
                    THEN Ok("unit")
                    ELSE Err("VerificationFailed")

\* a verification that accepts a signature of the key over any body
verify_any_body(body, massa_address, signature_b58, public_key_b58) ==
    verify_with(ed25519_verify_any_message, body, massa_address,
                signature_b58, public_key_b58)

\* auth::verify_upload_signature
verify_upload_signature(body, massa_address, signature_b58, public_key_b58) ==
    verify_with(ed25519_verify, body, massa_address, signature_b58, public_key_b58)

\* the hex text of a digest, as bytes: no body, and another text for another
\* digest
hex_text(digest) == <<16>> \o digest[2]

\* 64 signature bytes a request can carry: made by a key over the digest of a
\* body or over the digest of the hex text of that digest, as made or with a
\* bit flipped
RawSignatures ==
    {Sign(k, blake3_hash(b)) : k \in KeyIds, b \in Bodies}
        \cup {Sign(k, blake3_hash(hex_text(blake3_hash(b)))) : k \in KeyIds, b \in Bodies}
        \cup {FlipBit(Sign(k, blake3_hash(b))) : k \in KeyIds, b \in Bodies}
\* 32 key bytes a request can carry: a key, or bytes that are no curve point
RawKeys == KeyIds \cup {"not-a-point"}

\* the texts the two headers can carry
SignatureTexts ==
    {encode_versioned_base58(r, 64) : r \in RawSignatures}
        \cup {encode_base58check(r, 64) : r \in RawSignatures}
        \cup {Text(TRUE, FALSE, Versioned(v, 68, r, "bad")) : v \in {0, 1}, r \in RawSignatures}
        \cup {Text(TRUE, FALSE, Versioned(128, 64, r, "none")) : r \in RawSignatures}
        \cup {Text(TRUE, FALSE, Versioned(0, 63, r, "none")) : r \in RawSignatures}
        \cup {Text(FALSE, FALSE, EmptyBytes), Text(TRUE, FALSE, EmptyBytes)}
PublicKeyTexts ==
    {encode_versioned_base58(r, 32) : r \in RawKeys}
        \cup {encode_public_key(r) : r \in RawKeys}
        \cup {Text(TRUE, TRUE, Versioned(0, 36, r, "bad")) : r \in KeyIds}
        \cup {Text(TRUE, FALSE, Versioned(128, 32, r, "none")) : r \in KeyIds}
        \cup {Text(TRUE, FALSE, Versioned(0, 33, r, "none")) : r \in KeyIds}
        \cup {Text(FALSE, FALSE, EmptyBytes), Text(TRUE, FALSE, EmptyBytes)}

Addresses == {"AU1", "AU2"}

AuthInputs ==
    [op : {"verify"}, body : Bodies, massa_address : Addresses,
     signature : SignatureTexts, public_key : PublicKeyTexts]

\* one call of verify_upload_signature on the arguments drawn
Verify ==
    /\ au_in.op = "verify"
    /\ au_res = Err("pending")
    /\ au_res' = verify_upload_signature(au_in.body, au_in.massa_address,
                                         au_in.signature, au_in.public_key)
    /\ UNCHANGED <<au_in, storeVars, taskVars, pureVars, uploadVars, p2pVars>>

AuthNext == Verify

InitAuthCall ==
    /\ InitStoreWith({30}) /\ InitTasks /\ InitPure /\ InitUpload /\ InitP2pQuiet
    /\ au_in \in AuthInputs
    /\ au_res = Err("pending")

SpecAuth == InitAuthCall /\ [][AuthNext]_vars

\* the text decodes to a version byte below 0x80 and a payload of an accepted
\* length: n bytes, or n bytes and a checksum
WellFormed(text, n) ==
    /\ text.b58
    /\ ~text.bytes.empty
    /\ text.bytes.version < 128
    /\ text.bytes.len \in {n, n + 4}

\* C6: verify_upload_signature returns Ok when the signature was produced by
\* the key over the hash of the body; it returns VerificationFailed, never Ok,
\* when the signature bytes were altered, when the body is not the signed one,
\* or when the public key is a different well-formed key.
C6_VerifySound ==
    (/\ au_res # Err("pending")
     /\ WellFormed(au_in.signature, 64)
     /\ WellFormed(au_in.public_key, 32)
     /\ au_in.public_key.bytes.raw \in KeyIds)
    => LET sig == au_in.signature.bytes.raw
           key == au_in.public_key.bytes.raw
           genuine == sig = Sign(key, blake3_hash(au_in.body))
       IN /\ genuine => au_res = Ok("unit")
          /\ ~genuine => au_res = Err("VerificationFailed")

\* a signature made by the key over another body, in the checksummed encoding,
\* was presented with the key's own text and refused
C6_Witness ==
    /\ au_res = Err("VerificationFailed")
    /\ au_in.public_key = encode_public_key("K1")
    /\ \E b \in Bodies :
          /\ b # au_in.body
          /\ au_in.signature = encode_base58check(Sign("K1", blake3_hash(b)), 64)

----------------------------------------------------------------------------
(* sc_client.rs and api.rs: the upload handler *)

\* the registry contract's answer to getIsAllowedUploader(address)
AllowedUploaders == {"AU1"}
\* massa_grpc::address_from_keypair: the address a public key stands for
address_from_public_key(key) == IF key = "K1" THEN "AU1" ELSE "AU2"

\* what the JSON-RPC call can come back with
RpcOutcomes == {"value", "short_value", "transport_error", "http_error",
                "rpc_error", "sc_error", "no_value"}

\* the response to execute_read_only_call(getIsAllowedUploader, address)
RpcResponse(outcome, address) ==
    [outcome |-> outcome,
     value_len |-> IF outcome = "short_value" THEN 4 ELSE 8,
     n |-> IF address \in AllowedUploaders THEN 1 ELSE 0]

\* sc_client::get_is_allowed_uploader
get_is_allowed_uploader(response) ==
    IF response.outcome \notin {"value", "short_value"} THEN Err(response.outcome)
    ELSE IF response.value_len < 8 THEN Ok(FALSE)
    ELSE Ok(response.n = 1)

\* what upload does with the registry's answer: go on, or end with a status
registry_verdict_fail_open(allowed) ==
    IF ~allowed.ok THEN "proceed" ELSE IF allowed.val THEN "proceed" ELSE "403"

registry_verdict(allowed) ==
    IF ~allowed.ok THEN "503" ELSE IF allowed.val THEN "proceed" ELSE "403"

\* s.parse::<u8>().ok() on the X-Min-Replication header
parse_u8(n) == IF n \in 0..255 THEN Some(n) ELSE None

DefaultNamespace == <<"d", "e", "f", "a", "u", "l", "t">>

Skipped == Err("skipped")

Response(status, calls, verified, allowed, put_res, d, fs) ==
    [status |-> status, calls |-> calls, verified |-> verified, allowed |-> allowed,
     put_res |-> put_res, dirs |-> d, files |-> fs]

\* api::upload from `let namespace = ..` on: validation, put, response
upload_store(limit, d, fs, req, uploader_address, uuid, calls, verified, allowed) ==
    LET namespace == IF req.namespace = None THEN DefaultNamespace ELSE req.namespace[1]
        min_replication_param ==
            IF req.min_replication # None THEN req.min_replication
            ELSE IF req.x_min_replication = None THEN None
            ELSE parse_u8(req.x_min_replication[1])
    IN IF /\ min_replication_param # None
          /\ min_replication_param[1] \notin MIN_REPLICATION_MIN..MIN_REPLICATION_MAX
       THEN Response(400, calls, verified, allowed, Skipped, d, fs)
       ELSE LET min_replication == IF min_replication_param = None
                                   THEN MIN_REPLICATION_MIN
                                   ELSE min_replication_param[1]
                r == put(limit, d, fs, namespace, req.id, req.body,
                         min_replication, uploader_address, uuid)
                called == Append(calls, "put")
            IN IF r.res.ok
               THEN Response(201,
                        IF uploader_address # None /\ Len(req.body) > 0
                        THEN Append(called, "record_file_upload") ELSE called,
                        verified, allowed, r.res, r.dirs, r.files)
               ELSE Response(IF r.res.err = "StorageLimitExceeded" THEN 507 ELSE 400,
                        called, verified, allowed, r.res, r.dirs, r.files)

\* api::upload
upload(auth, limit, d, fs, req, rpc_outcome, uuid) ==
    IF ~auth
    THEN upload_store(limit, d, fs, req, None, uuid, <<>>, Skipped, Skipped)
    ELSE IF req.address = None \/ req.signature = None \/ req.public_key = None
    THEN Response(401, <<>>, Skipped, Skipped, Skipped, d, fs)
    ELSE LET verified == verify_upload_signature(req.body, req.address[1],
                                                 req.signature[1], req.public_key[1])
         IN IF ~verified.ok
            THEN Response(401, <<"verify">>, verified, Skipped, Skipped, d, fs)
            ELSE LET allowed == get_is_allowed_uploader(
                                    RpcResponse(rpc_outcome, req.address[1]))
                     calls == <<"verify", "registry">>
                     verdict == registry_verdict(allowed)
                 IN IF verdict = "403"
                    THEN Response(403, calls, verified, allowed, Skipped, d, fs)
                    ELSE IF verdict = "503"
                    THEN Response(503, calls, verified, allowed, Skipped, d, fs)
                    ELSE upload_store(limit, d, fs, req, req.address, uuid,
                                      calls, verified, allowed)

\* the signature massa-web3 Account.sign(body) sends for `key`
SignedBy(key, body) == encode_base58check(Sign(key, blake3_hash(body)), 64)

Request(address, signature, public_key, x_min_replication, namespace, id, min_replication, body) ==
    [address |-> address, signature |-> signature, public_key |-> public_key,
     x_min_replication |-> x_min_replication, namespace |-> namespace, id |-> id,
     min_replication |-> min_replication, body |-> body]

\* requests that vary the three authentication headers
AuthRequests ==
    {Request(a, sg, pk, None, None, None, None, <<0>>) :
        a \in {None} \cup {Some(x) : x \in Addresses},
        sg \in {None, Some(SignedBy("K1", <<0>>)), Some(SignedBy("K2", <<0>>)),
                Some(SignedBy("K1", <<1, 1>>))},
        pk \in {None} \cup {Some(encode_public_key(k)) : k \in KeyIds}}
\* requests of an allowed uploader that vary the body and the query
ParamRequests ==
    {Request(Some("AU1"), Some(SignedBy("K1", b)), Some(encode_public_key("K1")),
             xr, ns, None, qr, b) :
        b \in Bodies, xr \in {None, Some(0)}, ns \in {None, Some(<<"d", ".">>)},
        qr \in {None, Some(2), Some(33)}}
\* a request of an allowed uploader whose X-Min-Replication header holds a
\* number that does not fit a u8
HeaderRequests ==
    {Request(Some("AU1"), Some(SignedBy("K1", <<0>>)), Some(encode_public_key("K1")),
             Some(300), None, None, None, <<0>>)}
UploadRequests == AuthRequests \cup ParamRequests \cup HeaderRequests
UploadRpcOutcomes == {"value", "short_value", "transport_error"}

\* a response body: JSON with the given top-level fields, or raw bytes
JsonBody(fields) == [json |-> TRUE, fields |-> fields]
BinaryBody == [json |-> FALSE, fields |-> {}]

\* the body upload sends with a status: Json({id, namespace, min_replication})
\* with 201, Json({"error": ..}) with every other status it returns
upload_body(status) ==
    IF status = 201 THEN JsonBody({"id", "namespace", "min_replication"})
    ELSE JsonBody({"error"})

\* one POST /upload, from the extractors to the response
Upload(req, rpc_outcome) ==
    /\ \E r \in {upload(upload_auth, storage_limit_bytes, dirs, files, req,
                         rpc_outcome, UuidToken(uuid_count))} :
          /\ dirs' = r.dirs
          /\ files' = r.files
          /\ uuid_count' = IF r.put_res.ok /\ r.put_res.val = UuidToken(uuid_count)
                           THEN uuid_count + 1 ELSE uuid_count
          /\ up_last' = [op |-> "upload", req |-> req, status |-> r.status,
                         calls |-> r.calls, verified |-> r.verified,
                         allowed |-> r.allowed, put_res |-> r.put_res,
                         body |-> upload_body(r.status)]
    /\ UNCHANGED <<storage_limit_bytes, last, upload_auth, taskVars, authVars, pureVars, p2pVars>>

UploadNext == \E req \in UploadRequests, o \in UploadRpcOutcomes : Upload(req, o)

\* the router with or without upload authentication, on an empty store
InitUploadSpec ==
    /\ InitStoreWith({30}) /\ InitTasks /\ InitAuth /\ InitPure /\ InitP2pQuiet
    /\ upload_auth \in BOOLEAN
    /\ up_last = [op |-> "none"]

SpecUpload == InitUploadSpec /\ [][UploadNext]_vars

InCalls(u, c) == \E i \in 1..Len(u.calls) : u.calls[i] = c

\* what C4 says of one handled request u
C4_Order(u) ==
    /\ InCalls(u, "put")
          => /\ SubSeq(u.calls, 1, 3) = <<"verify", "registry", "put">>
             /\ u.verified = Ok("unit")
             /\ u.allowed = Ok(TRUE)
    /\ (u.req.address = None \/ u.req.signature = None \/ u.req.public_key = None
           \/ (u.verified # Skipped /\ ~u.verified.ok))
          => u.status = 401 /\ ~InCalls(u, "registry") /\ ~InCalls(u, "put")
    /\ u.allowed = Ok(FALSE) => u.status = 403 /\ ~InCalls(u, "put")
    /\ (u.allowed # Skipped /\ ~u.allowed.ok) => u.status = 503 /\ ~InCalls(u, "put")

\* C4: with upload authentication enabled, put is invoked only after verify
\* returned Ok and then the registry answered 'allowed'; a missing header or a
\* failed verification ends with 401 and no registry query, 'not allowed' with
\* 403, a registry failure with 503, and in these cases nothing is stored.
C4_AuthBeforeStore ==
    [][(upload_auth /\ up_last'.op = "upload")
        => /\ C4_Order(up_last')
           /\ up_last'.status \in {401, 403, 503} => (files' = files /\ dirs' = dirs)
           /\ ~InCalls(up_last', "put") => (files' = files /\ dirs' = dirs)]_vars

\* a verified request of a refused address got 403 while a blob is stored
C4_Witness ==
    /\ upload_auth
    /\ up_last.op = "upload"
    /\ up_last.status = 403
    /\ up_last.verified = Ok("unit")
    /\ files # <<>>

\* C5: with upload authentication enabled, a blob is stored with uploader A
\* only if the request's signature verifies under a public key bound to A.
C5_UploaderBoundToKey ==
    (upload_auth /\ up_last.op = "upload" /\ up_last.status = 201)
        => /\ up_last.req.public_key[1].bytes.raw \in KeyIds
           /\ address_from_public_key(up_last.req.public_key[1].bytes.raw)
                 = up_last.req.address[1]

----------------------------------------------------------------------------
(* p2p.rs: the lock around P2pState, the command channel, the event loop *)

stateVars == <<listen_addrs, connected_peers, discovered_addrs, first_listen_late>>
swarmVars == <<pending_listen, swarm_open, dials, peers_to_dial>>
evVars == <<ev_pc, ev_event>>
discVars == <<disc_pc, disc_todo, known_addrs>>
regVars == <<reg_pc, reg_multiaddrs, reg_elapsed, reg_wake_at, reg_backoff, reg_ops, reg_registered,
             published>>
peersVars == <<peers_pc, peers_resp>>
nodeVars == <<storeVars, taskVars, authVars, pureVars, uploadVars, env>>

\* mpsc::channel::<P2pCommand>(32); the model keeps a smaller buffer
CmdChannelCapacity == 1

\* tokio::sync::RwLock is fair: requests queue in arrival order, and a release
\* hands the lock to the head of the queue ("ev" asks for write access)
RECURSIVE rw_grant(_)
rw_grant(l) ==
    IF l.queue = <<>> \/ l.writer THEN l
    ELSE IF Head(l.queue) = "ev"
    THEN IF l.readers = {}
         THEN [readers |-> {}, writer |-> TRUE, queue |-> Tail(l.queue)]
         ELSE l
    ELSE rw_grant([readers |-> l.readers \cup {Head(l.queue)}, writer |-> FALSE,
                   queue |-> Tail(l.queue)])

\* state.read().await by task p, up to the point where it may have to wait
rw_read(l, p) == rw_grant([l EXCEPT !.queue = Append(@, p)])
\* state.write().await by the event loop
rw_write(l) == rw_grant([l EXCEPT !.queue = Append(@, "ev")])
\* drop of a read guard
rw_drop_read(l, p) == rw_grant([l EXCEPT !.readers = @ \ {p}])
\* drop of the write guard
rw_drop_write(l) == rw_grant([l EXCEPT !.writer = FALSE])


\* p2p::is_localhost_multiaddr: the text contains /ip4/0.0.0.0/ or /ip4/127.0.0.1/
is_localhost_multiaddr(addr) ==
    \E i \in 1..(Len(addr) - 2) :
        addr[i] = "ip4" /\ addr[i + 1] \in {"0.0.0.0", "127.0.0.1"}

SwarmEvent(kind, peer_id, address) ==
    [kind |-> kind, peer_id |-> peer_id, address |-> address]

\* connections to one peer that the swarm keeps open at a time
MaxConnections == 2

\* endpoint.get_remote_address() of the n-th connection to p
RemoteAddress(p, n) == <<"ip4", p, "tcp", DigitChar[n + 1]>>
IdentifyInfo(p) == [agent_version |-> "agent", listen_addrs |-> <<<<"dns", p>>>>]

\* what swarm.select_next_some() can yield now
ReadyEvents ==
    (IF pending_listen # <<>>
     THEN {SwarmEvent("NewListenAddr", "", Multiaddr(Head(pending_listen)))}
     ELSE {})
    \cup {SwarmEvent("ConnectionEstablished", p,
                     Multiaddr(RemoteAddress(p, swarm_open[p] + 1))) :
             p \in {q \in env.peers : swarm_open[q] < MaxConnections}}
    \cup {SwarmEvent("ConnectionClosed", p, Multiaddr(<<>>)) :
             p \in {q \in env.peers : swarm_open[q] > 0}}
    \cup {SwarmEvent("Identify", p, Multiaddr(<<>>)) : p \in env.peers}
    \cup {SwarmEvent("Ping", p, Multiaddr(<<>>)) :
             p \in {q \in env.peers : swarm_open[q] > 0}}

PeerInfo(peer_id, addresses, agent_version) ==
    [peer_id |-> peer_id, addresses |-> addresses, agent_version |-> agent_version]

\* select!: the cmd_rx.recv() branch
EvRecvCommand ==
    /\ ev_pc = "select"
    /\ cmd_chan # <<>>
    /\ cmd_chan' = Tail(cmd_chan)
    /\ dials' = IF parse_multiaddr(Head(cmd_chan)).ok
                THEN Append(dials, Head(cmd_chan)) ELSE dials
    /\ UNCHANGED <<nodeVars, rw, stateVars, pending_listen, swarm_open, peers_to_dial, evVars,
                   discVars, regVars, peersVars>>

\* select!: the swarm branch yields e; every event but Ping asks for the write lock
EvSwarmEvent(e) ==
    /\ ev_pc = "select"
    /\ e \in ReadyEvents
    /\ pending_listen' = IF e.kind = "NewListenAddr" THEN Tail(pending_listen)
                         ELSE pending_listen
    /\ swarm_open' = IF e.kind = "ConnectionEstablished"
                     THEN [swarm_open EXCEPT ![e.peer_id] = @ + 1]
                     ELSE IF e.kind = "ConnectionClosed"
                     THEN [swarm_open EXCEPT ![e.peer_id] = @ - 1]
                     ELSE swarm_open
    /\ IF e.kind = "Ping"
       THEN UNCHANGED <<rw, evVars>>
       ELSE /\ rw' = rw_write(rw)
            /\ ev_pc' = "write"
            /\ ev_event' = e
    /\ UNCHANGED <<nodeVars, stateVars, cmd_chan, dials, peers_to_dial, discVars, regVars,
                   peersVars>>

\* a table whose insert leaves the record of a peer it already holds
peers_after_keeping(table, e) ==
    LET p == e.peer_id
        others == {r \in table : r.peer_id # p}
    IN IF e.kind = "ConnectionEstablished"
       THEN IF others = table
            THEN table \cup {PeerInfo(p, <<to_string(e.address)>>, None)}
            ELSE table
       ELSE IF e.kind = "ConnectionClosed" THEN others
       ELSE IF e.kind = "Identify"
       THEN others \cup {PeerInfo(p, IdentifyInfo(p).listen_addrs,
                                  Some(IdentifyInfo(p).agent_version)) :
                            r \in table \ others}
       ELSE table

\* a table in which Identify makes a record for a peer that has none
peers_after_identify_inserting(table, e) ==
    LET p == e.peer_id
        others == {r \in table : r.peer_id # p}
    IN IF e.kind = "ConnectionEstablished"
       THEN others \cup {PeerInfo(p, <<to_string(e.address)>>, None)}
       ELSE IF e.kind = "ConnectionClosed" THEN others
       ELSE IF e.kind = "Identify"
       THEN others \cup {PeerInfo(p, IdentifyInfo(p).listen_addrs,
                                  Some(IdentifyInfo(p).agent_version))}
       ELSE table

\* s.connected_peers after the event loop has handled e: insert on
\* ConnectionEstablished, remove on ConnectionClosed, get_mut on Identify
peers_after(table, e) ==
    LET p == e.peer_id
        others == {r \in table : r.peer_id # p}
    IN IF e.kind = "ConnectionEstablished"
       THEN others \cup {PeerInfo(p, <<to_string(e.address)>>, None)}
       ELSE IF e.kind = "ConnectionClosed" THEN others
       ELSE IF e.kind = "Identify"
       THEN others \cup {PeerInfo(p, IdentifyInfo(p).listen_addrs,
                                  Some(IdentifyInfo(p).agent_version)) :
                            r \in table \ others}
       ELSE table

\* with the write guard: the event's change of P2pState, then the guard is dropped
EvApply ==
    /\ ev_pc = "write"
    /\ rw.writer
    /\ rw' = rw_drop_write(rw)
    /\ listen_addrs' = IF ev_event.kind = "NewListenAddr"
                       THEN Append(listen_addrs, ev_event.address) ELSE listen_addrs
    /\ first_listen_late' =
         IF ev_event.kind = "NewListenAddr" /\ first_listen_late = None
         THEN Some(reg_elapsed > DEADLINE_MS) ELSE first_listen_late
    /\ connected_peers' = peers_after(connected_peers, ev_event)
    /\ IF ev_event.kind = "NewListenAddr"
       THEN ev_pc' = "discovered" /\ UNCHANGED ev_event
       ELSE ev_pc' = "select" /\ ev_event' = NoEvent
    /\ UNCHANGED <<nodeVars, discovered_addrs, cmd_chan, swarmVars, discVars, regVars,
                   peersVars>>

\* NewListenAddr, after the guard: the address joins discovered_addrs
EvPublishDiscovered ==
    /\ ev_pc = "discovered"
    /\ LET addr_str == to_string(ev_event.address)
       IN discovered_addrs' =
            IF /\ ~is_localhost_multiaddr(addr_str)
               /\ \A i \in 1..Len(discovered_addrs) : discovered_addrs[i] # addr_str
            THEN Append(discovered_addrs, addr_str) ELSE discovered_addrs
    /\ ev_pc' = "select"
    /\ ev_event' = NoEvent
    /\ UNCHANGED <<nodeVars, rw, listen_addrs, connected_peers, first_listen_late,
                   cmd_chan, swarmVars, discVars, regVars, peersVars>>

----------------------------------------------------------------------------
(* main.rs: the periodic discovery loop *)

\* the providers the registry lists now: the others and, once registered, this node
ProvidersNow == Providers(env.providers, published)

\* client.get_all_providers().await
DiscQuery(ok, unreadable) ==
    /\ disc_pc = "query"
    /\ \E r \in {get_all_providers(ok, ProvidersNow, unreadable)} :
          IF r.ok
          THEN disc_todo' = Visits(r.val) /\ disc_pc' = "iter"
          ELSE disc_pc' = "sleep" /\ UNCHANGED disc_todo
    /\ UNCHANGED <<nodeVars, rw, stateVars, cmd_chan, swarmVars, evVars, known_addrs,
                   regVars, peersVars>>

\* a turn of the inner loop that does not consult the known set
DiscVisitRedialing ==
    /\ disc_pc = "iter"
    /\ IF disc_todo = <<>>
       THEN disc_pc' = "sleep" /\ UNCHANGED <<disc_todo, known_addrs, rw>>
       ELSE LET h == Head(disc_todo)
            IN IF is_self(MassaAddress, h.provider) \/ h.addr = <<>>
               THEN /\ disc_todo' = Tail(disc_todo)
                    /\ UNCHANGED <<disc_pc, known_addrs, rw>>
               ELSE /\ known_addrs' = known_addrs \cup {h.addr}
                    /\ rw' = rw_read(rw, "disc")
                    /\ disc_pc' = "dial"
                    /\ UNCHANGED disc_todo
    /\ UNCHANGED <<nodeVars, stateVars, cmd_chan, swarmVars, evVars, regVars, peersVars>>

\* one turn of the inner for loop, up to p2p_state_discovery.read().await
DiscVisit ==
    /\ disc_pc = "iter"
    /\ IF disc_todo = <<>>
       THEN disc_pc' = "sleep" /\ UNCHANGED <<disc_todo, known_addrs, rw>>
       ELSE LET h == Head(disc_todo)
            IN IF is_self(MassaAddress, h.provider) \/ h.addr = <<>> \/ h.addr \in known_addrs
               THEN /\ disc_todo' = Tail(disc_todo)
                    /\ UNCHANGED <<disc_pc, known_addrs, rw>>
               ELSE /\ known_addrs' = known_addrs \cup {h.addr}
                    /\ rw' = rw_read(rw, "disc")
                    /\ disc_pc' = "dial"
                    /\ UNCHANGED disc_todo
    /\ UNCHANGED <<nodeVars, stateVars, cmd_chan, swarmVars, evVars, regVars, peersVars>>

\* with the read guard: p2p.dial(addr).await, i.e. cmd_tx.send(..).await, which
\* completes when the channel has room (or is closed); then the guard is dropped
DiscDial ==
    /\ disc_pc = "dial"
    /\ "disc" \in rw.readers
    /\ ev_pc = "failed" \/ Len(cmd_chan) < CmdChannelCapacity
    /\ cmd_chan' = IF ev_pc = "failed" THEN cmd_chan
                   ELSE Append(cmd_chan, Head(disc_todo).addr)
    /\ rw' = rw_drop_read(rw, "disc")
    /\ disc_todo' = Tail(disc_todo)
    /\ disc_pc' = "iter"
    /\ UNCHANGED <<nodeVars, stateVars, swarmVars, evVars, known_addrs, regVars,
                   peersVars>>

\* tokio::time::sleep(30 s), then the next cycle
DiscSleep ==
    /\ disc_pc = "sleep"
    /\ disc_pc' = "query"
    /\ UNCHANGED <<nodeVars, rw, stateVars, cmd_chan, swarmVars, evVars, disc_todo,
                   known_addrs, regVars, peersVars>>

----------------------------------------------------------------------------
(* main.rs and contract.rs: the registration task *)

BindPort == "4343"
LocalHosts == {"0.0.0.0", "127.0.0.1", "localhost"}

\* main::is_local_endpoint
is_local_endpoint(endpoint) == endpoint.host \in LocalHosts

\* main::try_local_network_endpoint, for the local IP the UDP socket reports
\* IpAddr::is_loopback
is_loopback(ip) == ip \in {"127.0.0.1", "::1"}

try_local_network_endpoint(local_ip) ==
    IF local_ip = None \/ is_loopback(local_ip[1])
    THEN None ELSE Some(Endpoint(local_ip[1], BindPort))

\* main: endpoint_for_contract
endpoint_for_contract(e) ==
    IF is_local_endpoint(e.public_endpoint)
    THEN IF try_local_network_endpoint(e.local_ip) # None
         THEN try_local_network_endpoint(e.local_ip)[1]
         ELSE EmptyEndpoint
    ELSE e.public_endpoint

\* how a registry call can end
RegistryOutcomes == {"ok", "transport_error", "exec_error"}

\* the data getNodeInfo returns for an entry: empty for a node it does not hold
node_info(entry) == IF entry.registered THEN <<"info">> ELSE <<>>

\* contract::read_only_call_optional of getNodeInfo: an error when the call
\* does not come back, None when the contract's execution failed
read_only_call_optional(outcome, entry) ==
    IF outcome = "transport_error" THEN Err("transport")
    ELSE IF outcome = "exec_error" THEN Ok(None)
    ELSE Ok(Some(node_info(entry)))

\* contract::is_node_registered
is_node_registered(outcome, entry) ==
    LET r == read_only_call_optional(outcome, entry)
    IN IF ~r.ok THEN r
       ELSE IF r.val = None THEN Ok(FALSE)
       ELSE Ok(r.val[1] # <<>>)

\* contract::get_provider_metadata
get_provider_metadata(outcome, entry) ==
    IF outcome = "ok"
    THEN Ok([endpoint |-> entry.endpoint, p2p_addrs |-> entry.p2p_addrs])
    ELSE Err(outcome)

SetOf(seq) == {seq[i] : i \in 1..Len(seq)}

RegistryCall(call, ok, endpoint, p2p_addrs) ==
    [call |-> call, ok |-> ok, endpoint |-> endpoint, p2p_addrs |-> p2p_addrs]

\* a task that submits again when a submission failed
after_submit_retry(pc, outcome) == IF outcome = "ok" THEN "done" ELSE pc

\* where the task goes when a register or update submission has returned: both
\* match arms only log, and the task ends
after_submit(pc, outcome) == "done"

\* the wait loop up to p2p_state_clone.read().await
RegPoll ==
    /\ reg_pc = "poll"
    /\ rw' = rw_read(rw, "reg")
    /\ reg_pc' = "snapshot"
    /\ UNCHANGED <<nodeVars, stateVars, cmd_chan, swarmVars, evVars, discVars,
                   reg_multiaddrs, reg_elapsed, reg_wake_at, reg_backoff, reg_ops, reg_registered,
                   published, peersVars>>

\* with the read guard: copy listen_addrs, drop the guard; leave the loop with
\* the copy, give up at the deadline, or sleep for the backoff and double it
RegSnapshot ==
    /\ reg_pc = "snapshot"
    /\ "reg" \in rw.readers
    /\ rw' = rw_drop_read(rw, "reg")
    /\ IF listen_addrs # <<>>
       THEN /\ reg_multiaddrs' = [i \in 1..Len(listen_addrs) |->
                                    with_peer_id(to_string(listen_addrs[i]), LocalPeerId)]
            /\ reg_pc' = "is_registered"
            /\ UNCHANGED <<reg_elapsed, reg_wake_at, reg_backoff>>
       ELSE IF reg_elapsed >= DEADLINE_MS
       THEN /\ reg_pc' = "done"
            /\ UNCHANGED <<reg_multiaddrs, reg_elapsed, reg_wake_at, reg_backoff>>
       ELSE /\ reg_wake_at' = reg_elapsed + reg_backoff
            /\ reg_backoff' = IF reg_backoff * 2 < MAX_BACKOFF_MS
                              THEN reg_backoff * 2 ELSE MAX_BACKOFF_MS
            /\ reg_pc' = "sleep"
            /\ UNCHANGED <<reg_multiaddrs, reg_elapsed>>
    /\ UNCHANGED <<nodeVars, stateVars, cmd_chan, swarmVars, evVars, discVars, reg_ops,
                   reg_registered, published, peersVars>>

\* tokio::time::sleep(backoff) has run out: back to the head of the loop
RegWake ==
    /\ reg_pc = "sleep"
    /\ reg_elapsed >= reg_wake_at
    /\ reg_pc' = "poll"
    /\ UNCHANGED <<nodeVars, rw, stateVars, cmd_chan, swarmVars, evVars, discVars,
                   reg_multiaddrs, reg_elapsed, reg_wake_at, reg_backoff, reg_ops,
                   reg_registered, published, peersVars>>

\* time passes while the registration task sleeps: up to the end of the sleep,
\* with a stop right after the deadline when the deadline falls into the sleep
Tick ==
    /\ reg_pc = "sleep"
    /\ reg_elapsed < reg_wake_at
    /\ reg_elapsed' = IF reg_elapsed <= DEADLINE_MS /\ DEADLINE_MS + 1 < reg_wake_at
                      THEN DEADLINE_MS + 1 ELSE reg_wake_at
    /\ UNCHANGED <<nodeVars, rw, stateVars, cmd_chan, swarmVars, evVars, discVars,
                   reg_pc, reg_multiaddrs, reg_wake_at, reg_backoff, reg_ops,
                   reg_registered, published, peersVars>>

\* massa_client_reg.is_node_registered(&massa_address).await
RegIsRegistered(outcome) ==
    /\ reg_pc = "is_registered"
    /\ LET r == is_node_registered(outcome, published)
       IN /\ reg_ops' = Append(reg_ops, RegistryCall("getNodeInfo", r.ok,
                                                     EmptyEndpoint, <<>>))
          /\ reg_registered' = IF r.ok THEN Some(r.val) ELSE None
          /\ reg_pc' = IF ~r.ok THEN "done"
                       ELSE IF r.val THEN "get_metadata" ELSE "register"
    /\ UNCHANGED <<nodeVars, rw, stateVars, cmd_chan, swarmVars, evVars, discVars,
                   reg_multiaddrs, reg_elapsed, reg_wake_at, reg_backoff, published, peersVars>>

\* register_storage_node(storage_limit_gb, &endpoint_for_contract, &multiaddrs).await;
\* the registry takes the entry of a node it does not hold yet
RegRegister(outcome) ==
    /\ reg_pc = "register"
    /\ reg_ops' = Append(reg_ops, RegistryCall("registerStorageNode", outcome = "ok",
                                               endpoint_for_contract(env), reg_multiaddrs))
    /\ published' = IF outcome = "ok" /\ ~published.registered
                    THEN [registered |-> TRUE, endpoint |-> endpoint_for_contract(env),
                          p2p_addrs |-> reg_multiaddrs]
                    ELSE published
    /\ reg_pc' = after_submit(reg_pc, outcome)
    /\ UNCHANGED <<nodeVars, rw, stateVars, cmd_chan, swarmVars, evVars, discVars,
                   reg_multiaddrs, reg_elapsed, reg_wake_at, reg_backoff, reg_registered, peersVars>>

\* the comparison with the address lists taken as they are, in order
metadata_needs_update_ordered(current, endpoint, multiaddrs) ==
    IF current.ok
    THEN current.val.endpoint # endpoint \/ current.val.p2p_addrs # multiaddrs
    ELSE TRUE

\* main: metadata_needs_update, from what get_provider_metadata returned
\* a comparison that takes unreadable metadata for unchanged metadata
metadata_needs_update_if_read(current, endpoint, multiaddrs) ==
    IF current.ok
    THEN \/ current.val.endpoint # endpoint
         \/ SetOf(current.val.p2p_addrs) # SetOf(multiaddrs)
    ELSE FALSE

metadata_needs_update(current, endpoint, multiaddrs) ==
    IF current.ok
    THEN \/ current.val.endpoint # endpoint
         \/ SetOf(current.val.p2p_addrs) # SetOf(multiaddrs)
    ELSE TRUE

\* get_provider_metadata(&massa_address).await and the comparison with the wanted
RegGetMetadata(outcome) ==
    /\ reg_pc = "get_metadata"
    /\ LET current == get_provider_metadata(outcome, published)
       IN /\ reg_ops' = Append(reg_ops, RegistryCall("getProviderMetadataView",
                                                     current.ok, EmptyEndpoint, <<>>))
          /\ reg_pc' = IF metadata_needs_update(current, endpoint_for_contract(env),
                                                reg_multiaddrs)
                       THEN "update" ELSE "done"
    /\ UNCHANGED <<nodeVars, rw, stateVars, cmd_chan, swarmVars, evVars, discVars,
                   reg_multiaddrs, reg_elapsed, reg_wake_at, reg_backoff, reg_registered, published,
                   peersVars>>

\* update_provider_metadata(&endpoint_for_contract, &multiaddrs).await
RegUpdate(outcome) ==
    /\ reg_pc = "update"
    /\ reg_ops' = Append(reg_ops, RegistryCall("updateProviderMetadata", outcome = "ok",
                                               endpoint_for_contract(env), reg_multiaddrs))
    /\ published' = IF outcome = "ok" /\ published.registered
                    THEN [registered |-> TRUE, endpoint |-> endpoint_for_contract(env),
                          p2p_addrs |-> reg_multiaddrs]
                    ELSE published
    /\ reg_pc' = after_submit(reg_pc, outcome)
    /\ UNCHANGED <<nodeVars, rw, stateVars, cmd_chan, swarmVars, evVars, discVars,
                   reg_multiaddrs, reg_elapsed, reg_wake_at, reg_backoff, reg_registered, peersVars>>

----------------------------------------------------------------------------
(* api.rs: GET /peers *)

\* api::peers up to p2p.read().await
PeersRequest ==
    /\ peers_pc = "idle"
    /\ rw' = rw_read(rw, "peers")
    /\ peers_pc' = "read"
    /\ UNCHANGED <<nodeVars, stateVars, cmd_chan, swarmVars, evVars, discVars, regVars,
                   peers_resp>>

\* with the read guard: the response
PeersRespond ==
    /\ peers_pc = "read"
    /\ "peers" \in rw.readers
    /\ rw' = rw_drop_read(rw, "peers")
    /\ peers_resp' =
         [status |-> 200,
          local_peer_id |-> LocalPeerId,
          listen_addrs |-> [i \in 1..Len(listen_addrs) |-> to_string(listen_addrs[i])],
          multiaddrs |-> [i \in 1..Len(listen_addrs) |->
                            with_peer_id(to_string(listen_addrs[i]), LocalPeerId)],
          connected_peers |-> connected_peers]
    /\ peers_pc' = "idle"
    /\ UNCHANGED <<nodeVars, stateVars, cmd_chan, swarmVars, evVars, discVars, regVars>>

----------------------------------------------------------------------------
(* The P2P tasks running together *)

\* a registry with three peer addresses of another provider, one peer that
\* connects and disconnects, no gRPC client (so no registration task)
DialEnv ==
    [Environment(<<[address |-> "AU2", p2p_addrs |-> <<PeerAddr1, PeerAddr2, PeerAddr3>>]>>,
                 {"P1"}, <<Lan>>, TRUE, FALSE, Endpoint("1.2.3.4", "4343"), None,
                 Unregistered)
     EXCEPT !.bootstrap_peers = <<PeerAddr1>>]

\* a node with a gRPC client whose transport reports two listen addresses
RegEnvs ==
    {Environment(<<>>, {}, l, TRUE, TRUE, Endpoint("1.2.3.4", "4343"), None, p) :
        l \in {<<Loopback, Lan>>, <<Lan, Loopback>>, <<LanQuic, Lan>>},
        p \in {Unregistered, Stale}}

\* registry entries an earlier run left for the addresses LanQuic and Lan: the
\* same addresses in another order and with a repetition; the same under
\* another endpoint
PublishedBefore ==
    {[registered |-> TRUE, endpoint |-> ep,
      p2p_addrs |-> <<with_peer_id(Lan, LocalPeerId), with_peer_id(LanQuic, LocalPeerId),
                      with_peer_id(Lan, LocalPeerId)>>] :
        ep \in {Endpoint("1.2.3.4", "4343"), Endpoint("9.9.9.9", "4343")}}

\* a node that was registered by an earlier run and starts again
RestartEnvs ==
    {Environment(<<>>, {}, <<LanQuic, Lan>>, TRUE, TRUE, Endpoint("1.2.3.4", "4343"),
                 None, p) : p \in PublishedBefore}

\* a node without gRPC client whose entry an earlier run left in the registry,
\* next to the entries of two other providers
SelfListedEnv ==
    Environment(<<[address |-> "AU2", p2p_addrs |-> <<PeerAddr2>>],
                  [address |-> "AU3", p2p_addrs |-> <<PeerAddr3>>]>>, {}, <<Lan>>, TRUE,
                FALSE, Endpoint("1.2.3.4", "4343"), None,
                CHOOSE p \in PublishedBefore : p.endpoint = Endpoint("1.2.3.4", "4343"))

\* a node whose TCP listen fails, so that run returns and drops the command
\* receiver; the registry lists a provider with an empty address and with one
\* address twice
ListenFailedEnv ==
    Environment(<<[address |-> "AU2", p2p_addrs |-> <<PeerAddr2, <<>>, PeerAddr2>>]>>, {},
                <<Lan>>, FALSE, FALSE, Endpoint("1.2.3.4", "4343"), None, Unregistered)

\* a node with two peers and nothing in the registry, listening on the IPv6
\* loopback and on a LAN address
TwoPeersEnv ==
    Environment(<<>>, {"P1", "P2"}, <<Loopback6, Lan>>, TRUE, FALSE, Endpoint("1.2.3.4", "4343"),
                None, Unregistered)

\* unregistered nodes with a gRPC client: the configured public endpoint is
\* the unspecified address, a loopback address of either family or a public
\* address, and the UDP socket reports a LAN address, a loopback or nothing
EndpointEnvs ==
    {Environment(<<>>, {}, <<Lan>>, TRUE, TRUE, Endpoint(h, "4343"), ip, Unregistered) :
        h \in {"0.0.0.0", "127.0.0.1", "::1", "1.2.3.4"},
        ip \in {None, Some("10.0.0.1"), Some("127.0.0.1")}}

P2pEnvs ==
    {DialEnv, SelfListedEnv, ListenFailedEnv, TwoPeersEnv}
        \cup RegEnvs \cup RestartEnvs \cup EndpointEnvs

InitP2p ==
    /\ InitStoreWith({30}) /\ InitTasks /\ InitAuth /\ InitPure /\ InitUpload
    /\ \E e \in P2pEnvs : P2pStart(e)

P2pNext ==
    \/ EvRecvCommand
    \/ \E e \in ReadyEvents : EvSwarmEvent(e)
    \/ EvApply
    \/ EvPublishDiscovered
    \/ \E ok \in BOOLEAN, u \in Unreadables(ProvidersNow) : DiscQuery(ok, u)
    \/ DiscVisit
    \/ DiscDial
    \/ DiscSleep
    \/ RegPoll
    \/ RegSnapshot
    \/ RegWake
    \/ Tick
    \/ \E o \in RegistryOutcomes : RegIsRegistered(o)
    \/ \E o \in RegistryOutcomes : RegRegister(o)
    \/ \E o \in RegistryOutcomes : RegGetMetadata(o)
    \/ \E o \in RegistryOutcomes : RegUpdate(o)
    \/ PeersRequest
    \/ PeersRespond

SpecP2p == InitP2p /\ [][P2pNext]_vars

\* C9: the system never reaches a state in which the event loop waits for
\* write access while a task holding read access waits for the event loop to
\* make progress (here: for room in the full dial-command channel).
C9_NoWriterBehindBlockedReader ==
    ~ /\ ev_pc = "write"
      /\ ~rw.writer
      /\ "disc" \in rw.readers
      /\ disc_pc = "dial"
      /\ Len(cmd_chan) >= CmdChannelCapacity

\* what the node should have published once its addresses are all known
DesiredP2pAddrs ==
    {with_peer_id(to_string(a), LocalPeerId) :
        a \in {m \in SetOf(listen_addrs) : ~is_localhost_multiaddr(to_string(m))}}

\* C10: when every registry call succeeded, the registration task has ended
\* and the transport has reported all listen addresses, the registry holds the
\* resolved endpoint and exactly the non-loopback listen addresses (nothing is
\* published after the task has ended, so this is where the published entry
\* would have to have converged).
C10_PublishedConverges ==
    (/\ reg_pc = "done"
     /\ reg_ops # <<>>
     /\ \A i \in 1..Len(reg_ops) : reg_ops[i].ok
     /\ pending_listen = <<>>
     /\ ev_pc = "select")
        => /\ published.registered
           /\ published.endpoint = endpoint_for_contract(env)
           /\ SetOf(published.p2p_addrs) = DesiredP2pAddrs

\* the registration task found the node registered and read its metadata
ReadPublished ==
    /\ Len(reg_ops) >= 2
    /\ reg_ops[1].call = "getNodeInfo" /\ reg_ops[1].ok
    /\ reg_ops[2].call = "getProviderMetadataView" /\ reg_ops[2].ok

\* the operations of the log that write to the registry
Writes(ops) ==
    SelectSeq(ops, LAMBDA o : o.call \in {"registerStorageNode", "updateProviderMetadata"})

\* C11: for a registered node whose published metadata was read, the task
\* submits no write when the wanted endpoint equals the published one and the
\* wanted addresses equal the published ones as a set, and exactly one update
\* otherwise.
C11_ReconciliationIdempotent ==
    (reg_pc = "done" /\ ReadPublished)
        => IF /\ env.published0.endpoint = endpoint_for_contract(env)
              /\ SetOf(env.published0.p2p_addrs) = SetOf(reg_multiaddrs)
           THEN Writes(reg_ops) = <<>>
           ELSE /\ Len(Writes(reg_ops)) = 1
                /\ Writes(reg_ops)[1].call = "updateProviderMetadata"

\* no write was submitted although the published list has another order and a
\* repeated element
C11_Witness ==
    /\ reg_pc = "done"
    /\ ReadPublished
    /\ Writes(reg_ops) = <<>>
    /\ Len(reg_multiaddrs) = 2
    /\ env.published0.p2p_addrs # reg_multiaddrs

\* C12: over its whole run the registration task submits at most one write, a
\* register only when is_node_registered answered false and an update only
\* when it answered true; after a submission, failed or not, the task has
\* ended and makes no further registry call.
C12_OneShot ==
    /\ [](/\ Len(Writes(reg_ops)) <= 1
          /\ \A i \in 1..Len(Writes(reg_ops)) :
                /\ Writes(reg_ops)[i].call = "registerStorageNode"
                      => reg_registered = Some(FALSE)
                /\ Writes(reg_ops)[i].call = "updateProviderMetadata"
                      => reg_registered = Some(TRUE)
                /\ reg_pc = "done")
    /\ [][reg_pc = "done" => (reg_pc' = "done" /\ reg_ops' = reg_ops)]_vars

\* a submission failed and the task has ended
C12_Witness ==
    /\ reg_pc = "done"
    /\ Len(Writes(reg_ops)) = 1
    /\ ~Writes(reg_ops)[1].ok

\* C13: the task makes no registry call before it has seen a listen address;
\* when no listen address was stored within 60 s of its start, it makes no
\* registry call at all, also when an address is stored after the 60 s.
C13_AbandonAfterDeadline ==
    /\ reg_ops # <<>> => reg_multiaddrs # <<>>
    /\ (/\ reg_elapsed > DEADLINE_MS
        /\ first_listen_late \in {None, Some(TRUE)})
          => reg_ops = <<>>

\* an address text whose IP component is a loopback or the unspecified address
LoopbackOrUnspecified(text) ==
    \E i \in 1..(Len(text) - 1) :
        \/ text[i] = "ip4" /\ text[i + 1] \in {"127.0.0.1", "0.0.0.0"}
        \/ text[i] = "ip6" /\ text[i + 1] \in {"::1", "::"}

\* C14: the address list submitted in a register or update operation contains
\* no loopback or unspecified address.
C14_NoLoopbackSubmitted ==
    \A i \in 1..Len(Writes(reg_ops)) :
        \A j \in 1..Len(Writes(reg_ops)[i].p2p_addrs) :
            ~LoopbackOrUnspecified(Writes(reg_ops)[i].p2p_addrs[j])

\* C15: when the event loop has handled ConnectionEstablished(p, addr) the
\* table holds for p exactly the record with addresses [addr] and no agent
\* version; when it has handled ConnectionClosed(p) it holds no record for p;
\* the table changes only when one of ConnectionEstablished, Identify and
\* ConnectionClosed is handled.
C15_PeerTableTransitions ==
    [][/\ (ev_pc = "write" /\ ev_pc' # "write")
            => /\ ev_event.kind = "ConnectionEstablished"
                    => {r \in connected_peers' : r.peer_id = ev_event.peer_id}
                         = {PeerInfo(ev_event.peer_id,
                                     <<to_string(ev_event.address)>>, None)}
               /\ ev_event.kind = "ConnectionClosed"
                    => {r \in connected_peers' : r.peer_id = ev_event.peer_id} = {}
       /\ connected_peers' # connected_peers
            => /\ ev_pc = "write" /\ ev_pc' # "write"
               /\ ev_event.kind \in {"ConnectionEstablished", "Identify",
                                      "ConnectionClosed"}]_vars

\* a second connection to an identified peer was established: the record holds
\* the address of that connection and no agent version
C15_Witness ==
    \E p \in env.peers :
        /\ swarm_open[p] = 2
        /\ ev_pc = "select"
        /\ PeerInfo(p, <<RemoteAddress(p, 2)>>, None) \in connected_peers

\* the addresses that reach the node from somewhere else than its own entry:
\* the configured bootstrap peers and the entries of the other providers
SeqRange(q) == {q[i] : i \in 1..Len(q)}
ForeignAddrs ==
    UNION {SeqRange(env.providers[i].p2p_addrs) :
             i \in {j \in 1..Len(env.providers) : env.providers[j].address # MassaAddress}}

\* C16: the startup pass and the discovery cycles take no address from the
\* registry entry of the local node: every address of the startup dial list is
\* a bootstrap peer or an address of another provider, and every address of
\* the known set, of a queued dial command and of a dial the discovery loop
\* caused is an address of another provider.
C16_SelfNeverDialed ==
    /\ SeqRange(peers_to_dial) \subseteq SeqRange(env.bootstrap_peers) \cup ForeignAddrs
    /\ known_addrs \subseteq ForeignAddrs
    /\ SeqRange(cmd_chan) \subseteq ForeignAddrs
    /\ SeqRange(dials) \subseteq SeqRange(env.bootstrap_peers) \cup ForeignAddrs

\* the registry held the entry of the local node with its addresses from the
\* start; the startup pass and a whole discovery cycle have gone over it
C16_Witness ==
    /\ env.published0.registered /\ env.published0.p2p_addrs # <<>>
    /\ published = env.published0
    /\ env.providers # <<>>
    /\ peers_to_dial = <<PeerAddr2>>
    /\ disc_pc = "iter" /\ disc_todo = <<>>
    /\ known_addrs = {PeerAddr2}

\* C17: a call of dial returns without waiting for the event loop: whenever
\* the discovery loop is inside p2p.dial(addr), holding its read guard, the
\* send can complete at once, either because the channel has room or because
\* its receiver is gone.
C17_DialNeverWaits ==
    (disc_pc = "dial" /\ "disc" \in rw.readers)
        => (ev_pc = "failed" \/ Len(cmd_chan) < CmdChannelCapacity)

\* C18: for a store that starts empty, the payload bytes of the stored blobs
\* never exceed the ceiling under sequential puts, also when a put replaces
\* the payload of an existing id by a larger one.
C18_PayloadWithinCeiling == PayloadBytes(files) <= storage_limit_bytes

\* an accepted put of two bytes has raised the payload bytes by one only: it
\* replaced the one-byte payload of its id
C18_Witness ==
    /\ last.op = "put" /\ last.res.ok
    /\ Len(last.data) = 2
    /\ PayloadBytes(files) = last.payload_before + 1

\* the sum of the size fields of a set of index entries
RECURSIVE SumSizes(_)
SumSizes(entries) ==
    IF entries = {} THEN 0
    ELSE LET e == CHOOSE x \in entries : TRUE
         IN e.size + SumSizes(entries \ {e})

\* C19: usage counts blob bytes only: after any sequence of puts total_size()
\* equals the sum of the sizes of the entries of list(None).
C19_UsageIsListedBytes == total_size(files) = SumSizes(list(dirs, files, None))

----------------------------------------------------------------------------
(* Listing a store with several namespaces *)

\* namespaces the listing is exercised with: empty, two distinct ones, and one
\* that sanitizes to the same directory as another
ListNamespaces == {<<>>, <<"d", ".">>, <<"d", "_">>, <<"e">>}
ListPayloads == {<<>>, <<0>>}
ListHints == {None, Some(<<"a">>)}
\* room for three blobs with their sidecars
ListCeiling == 50

InitList ==
    /\ InitStoreWith({ListCeiling}) /\ InitTasks /\ InitAuth /\ InitPure /\ InitUpload
    /\ InitP2pQuiet

ListNext ==
    \/ \E ns \in ListNamespaces, h \in ListHints, d \in ListPayloads :
          Put(ns, h, d, <<1, None>>)
    \/ \E ns \in {None} \cup {Some(n) : n \in ListNamespaces} : List(ns)

SpecList == InitList /\ [][ListNext]_vars

EntryKeys(entries) == {<<e.namespace, e.id>> : e \in entries}

\* C20: every successful put adds the pair (sanitized namespace, returned id)
\* to what list(None) returns, and nothing else changes the listing, so that
\* list(None) has exactly one entry per stored pair; no entry is a sidecar;
\* list(Some(ns)) is the part of list(None) in the namespace ns sanitizes to;
\* the id a put returns is not the name of a sidecar file.
C20_ListingMatchesPuts ==
    /\ [](list(dirs, files, None) = {} \/ last.op # "new")
    /\ [][last'.op = "put" =>
            LET before == list(dirs, files, None)
                after == list(dirs', files', None)
            IN /\ IF last'.res.ok
                  THEN EntryKeys(after) =
                         EntryKeys(before)
                           \cup {<<sanitize_segment(last'.namespace), last'.res.val>>}
                  ELSE after = before
               /\ Cardinality(after) = Cardinality(EntryKeys(after))
               /\ \A e \in after : files'[<<e.namespace, e.id>>].kind = "data"
               /\ \A ns \in ListNamespaces :
                     list(dirs', files', Some(ns))
                       = {e \in after : e.namespace = sanitize_segment(ns)}
               /\ last'.res.ok =>
                     \A q \in DOMAIN files' :
                        files'[q].kind = "json" => q[2] # last'.res.val]_vars

\* three blobs in two namespaces are stored, and list(Some("e")) has returned
\* the single entry of namespace e
C20_Witness ==
    /\ Cardinality(list(dirs, files, None)) = 3
    /\ last.op = "list" /\ last.namespace = Some(<<"e">>)
    /\ Cardinality(last.res.val) = 1
    /\ \A e \in last.res.val : e.namespace = <<"e">>

----------------------------------------------------------------------------
(* Listing next to concurrent puts of one id with different metadata *)

\* two uploads of the id "a" that differ in payload length and in metadata
MetaRequests ==
    {[namespace |-> <<"d", ".">>, id_hint |-> Some(<<"a">>), data |-> <<>>,
      meta |-> <<1, None>>],
     [namespace |-> <<"d", ".">>, id_hint |-> Some(<<"a">>), data |-> <<0>>,
      meta |-> <<2, Some("AU1")>>]}

ConcMetaNext ==
    \/ \E t \in Tasks, req \in MetaRequests : PutReadUsage(t, req)
    \/ \E t \in Tasks : PutAdmission(t)
    \/ \E t \in Tasks : PutEnsureNamespace(t)
    \/ \E t \in Tasks : PutWritePayload(t)
    \/ \E t \in Tasks : PutWriteSidecar(t)
    \/ List(None)

SpecConcMeta == Init /\ [][ConcMetaNext]_vars

\* entry e is what put request req, stored under id, is to be listed as
ReportsPut(e, req, id) ==
    /\ e.namespace = sanitize_segment(req.namespace) /\ e.id = id
    /\ e.size = Len(req.data)
    /\ e.min_replication = req.meta[1]
    /\ e.uploader_address = req.meta[2]

\* C21: each list entry reports the size, min_replication and uploader of a
\* put that stored the blob: once no put is in flight, every entry that list
\* returns agrees in all three with one of the puts that returned its id.
C21_EntryReportsItsPut ==
    (last.op = "list" /\ \A t \in Tasks : t_pc[t] = "done")
        => \A e \in last.res.val \cap list(dirs, files, None) :
              \E t \in Tasks : t_res[t].ok /\ ReportsPut(e, t_req[t], t_id[t])

----------------------------------------------------------------------------
(* sanitize_segment on its own, and the paths put and get build with it *)

\* characters of the strings tried: a letter, a digit, the two punctuation
\* marks that pass, a dot, a path separator, a non-ASCII letter
SanChars == {"a", "0", "-", "_", ".", "/", "e-acute"}
MaxSegmentLen == 3
SanInputs == UNION {[1..n -> SanChars] : n \in 0..MaxSegmentLen}

\* the path Storage::get reads, None when it returns InvalidInput
get_path(namespace, id) ==
    LET ns == sanitize_segment(namespace)
        sid == sanitize_segment(id)
    IN IF ns = <<>> \/ sid = <<>> THEN None ELSE Some(<<ns, sid>>)

\* the paths Storage::put writes on an empty store
put_paths(namespace, id_hint) ==
    DOMAIN put(storage_limit_bytes, {}, <<>>, namespace, id_hint, <<>>, 1, None,
               UuidToken(0)).files

InitSanitize ==
    /\ InitStoreWith({30}) /\ InitTasks /\ InitAuth /\ InitUpload /\ InitP2pQuiet
    /\ call_in \in {[op |-> "sanitize", s |-> s, t |-> t] :
                       s \in SanInputs, t \in {<<>>, <<"a", ".">>}}
    /\ call_out = None

\* sanitize_segment(s), and a put and a get with s and t as namespace and id
SanitizeCall ==
    /\ call_in.op = "sanitize" /\ call_out = None
    /\ call_out' = Some([res |-> sanitize_segment(call_in.s),
                         paths |-> put_paths(call_in.s, Some(call_in.t))
                                     \cup put_paths(call_in.t, Some(call_in.s))
                                     \cup put_paths(call_in.s, None)
                                     \cup {q[1] : q \in {get_path(call_in.s, call_in.t),
                                                         get_path(call_in.t, call_in.s)}
                                                        \ {None}}])
    /\ UNCHANGED <<call_in, storeVars, taskVars, authVars, uploadVars, p2pVars>>

SpecSanitize == InitSanitize /\ [][SanitizeCall]_vars

SafeChars == AsciiAlphanumeric \cup {"-", "_"}
SafeSegment(x) == x # <<>> /\ \A i \in 1..Len(x) : x[i] \in SafeChars

\* C22: sanitize_segment is idempotent, keeps the number of characters and
\* returns only ASCII letters, digits, '-' and '_'; every path put or get
\* touches is <ns>/<id> or <ns>/<id>.meta with ns and id non-empty and made
\* of those characters only.
C22_SanitizeIdempotentSafePaths ==
    call_out # None =>
        LET r == call_out[1].res
        IN /\ sanitize_segment(r) = r
           /\ Len(r) = Len(call_in.s)
           /\ \A i \in 1..Len(r) : r[i] \in SafeChars
           /\ \A q \in call_out[1].paths :
                 /\ SafeSegment(q[1])
                 /\ \/ SafeSegment(q[2])
                    \/ /\ ends_with(q[2], DotMeta)
                       /\ SafeSegment(SubSeq(q[2], 1, Len(q[2]) - Len(DotMeta)))

\* a string of a dot, a separator and a non-ASCII letter was sanitized to
\* three underscores, and put and get built their paths from it
C22_Witness ==
    /\ call_in.op = "sanitize" /\ call_in.s = <<".", "/", "e-acute">>
    /\ call_out # None
    /\ call_out[1].res = <<"_", "_", "_">>
    /\ <<<<"_", "_", "_">>, <<"a", "_">>>> \in call_out[1].paths
    /\ <<<<"_", "_", "_">>, <<"u", "-", "0", ".", "m", "e", "t", "a">>>> \in call_out[1].paths

\* C23: get fails with InvalidInput when the sanitized namespace or id is
\* empty, fails with NotFound when list(None) has no entry for the sanitized
\* namespace and id, and never changes the store.
C23_GetFailures ==
    /\ [](last.op = "get" =>
            LET ns == sanitize_segment(last.namespace)
                sid == sanitize_segment(last.id)
            IN IF ns = <<>> \/ sid = <<>>
               THEN last.res = Err("InvalidInput")
               ELSE (\A e \in list(dirs, files, None) : <<e.namespace, e.id>> # <<ns, sid>>)
                       => last.res = Err("NotFound"))
    /\ [][last'.op = "get" =>
            /\ dirs' = dirs /\ files' = files
            /\ total_size(files') = total_size(files)]_vars

\* with the blob a stored, a get of the id "a." (sanitized a_) returned NotFound
C23_Witness ==
    /\ last.op = "get" /\ last.id = <<"a", ".">> /\ last.res = Err("NotFound")
    /\ \E e \in list(dirs, files, None) : e.id = <<"a">>

\* the replication target a request supplies: the query parameter, or the
\* X-Min-Replication header when there is no query parameter
SuppliedReplication(req) ==
    IF req.min_replication # None THEN req.min_replication ELSE req.x_min_replication

\* C24: a request that got past authentication and supplies a replication
\* target outside 1..32 is answered 400 and stores nothing; every sidecar
\* written by an upload holds a min_replication in 1..32.
C24_ReplicationWithinRange ==
    /\ \A q \in DOMAIN files :
          files[q].kind = "json"
             => files[q].meta.min_replication \in MIN_REPLICATION_MIN..MIN_REPLICATION_MAX
    /\ (/\ up_last.op = "upload"
        /\ up_last.status \in {201, 400, 507}
        /\ SuppliedReplication(up_last.req) # None
        /\ SuppliedReplication(up_last.req)[1]
              \notin MIN_REPLICATION_MIN..MIN_REPLICATION_MAX)
         => (up_last.status = 400 /\ up_last.put_res = Skipped)

----------------------------------------------------------------------------
(* args.rs: the Args buffer.  A byte is a number in 0..255, a string is the  *)
(* sequence of its chars, and as_bytes / String::from_utf8 convert between  *)
(* chars and their UTF-8 bytes.                                              *)

\* UTF-8 of the chars the model uses: one of one byte, one of two bytes
Utf8(c) == IF c = "a" THEN <<97>> ELSE <<195, 169>>

RECURSIVE as_bytes(_)
as_bytes(str) == IF str = <<>> THEN <<>> ELSE Utf8(Head(str)) \o as_bytes(Tail(str))

\* String::from_utf8 on the byte sequences over these encodings
RECURSIVE from_utf8(_)
from_utf8(bytes) ==
    IF bytes = <<>> THEN Ok(<<>>)
    ELSE IF bytes[1] < 128
    THEN LET rest == from_utf8(Tail(bytes))
         IN IF rest.ok THEN Ok(<<"a">> \o rest.val) ELSE rest
    ELSE IF Len(bytes) >= 2 /\ bytes[1] = 195 /\ bytes[2] \in 128..191
    THEN LET rest == from_utf8(Tail(Tail(bytes)))
         IN IF rest.ok THEN Ok(<<"e-acute">> \o rest.val) ELSE rest
    ELSE Err("InvalidUtf8")

\* value.to_le_bytes() of an integer of n bytes, and from_le_bytes
RECURSIVE to_le_bytes(_, _)
to_le_bytes(value, n) ==
    IF n = 0 THEN <<>> ELSE <<value % 256>> \o to_le_bytes(value \div 256, n - 1)

RECURSIVE from_le_bytes(_)
from_le_bytes(bytes) ==
    IF bytes = <<>> THEN 0 ELSE bytes[1] + 256 * from_le_bytes(Tail(bytes))

\* Args::new(), and Args::from_bytes(data)
ArgsNew == [data |-> <<>>, offset |-> 0]
from_bytes(data) == [data |-> data, offset |-> 0]

add_u32(args, value) == [args EXCEPT !.data = @ \o to_le_bytes(value, 4)]
add_u64(args, value) == [args EXCEPT !.data = @ \o to_le_bytes(value, 8)]
add_string(args, value) ==
    [add_u32(args, Len(as_bytes(value))) EXCEPT !.data = @ \o as_bytes(value)]

\* the `content` buffer of add_string_array
RECURSIVE array_content(_)
array_content(values) ==
    IF values = <<>> THEN <<>>
    ELSE to_le_bytes(Len(as_bytes(Head(values))), 4) \o as_bytes(Head(values))
         \o array_content(Tail(values))

\* an array writer that prefixes the number of strings
add_string_array_counted(args, values) ==
    [add_u32(args, Len(values)) EXCEPT !.data = @ \o array_content(values)]

add_string_array(args, values) ==
    [add_u32(args, Len(array_content(values))) EXCEPT !.data = @ \o array_content(values)]

\* what a next_* call returns and the reader it leaves
Read(res, args) == [res |-> res, args |-> args]

next_u32(args) ==
    IF args.offset + 4 > Len(args.data) THEN Read(Err("OutOfRange"), args)
    ELSE Read(Ok(from_le_bytes(SubSeq(args.data, args.offset + 1, args.offset + 4))),
              [args EXCEPT !.offset = @ + 4])

next_u64(args) ==
    IF args.offset + 8 > Len(args.data) THEN Read(Err("OutOfRange"), args)
    ELSE Read(Ok(from_le_bytes(SubSeq(args.data, args.offset + 1, args.offset + 8))),
              [args EXCEPT !.offset = @ + 8])

next_bytes(args) ==
    LET len == next_u32(args)
    IN IF ~len.res.ok THEN len
       ELSE IF len.args.offset + len.res.val > Len(len.args.data)
       THEN Read(Err("OutOfRange"), len.args)
       ELSE Read(Ok(SubSeq(len.args.data, len.args.offset + 1,
                           len.args.offset + len.res.val)),
                 [len.args EXCEPT !.offset = @ + len.res.val])

next_string(args) ==
    LET bytes == next_bytes(args)
    IN IF ~bytes.res.ok THEN bytes ELSE Read(from_utf8(bytes.res.val), bytes.args)

\* the while loop of next_string_array
RECURSIVE read_strings(_, _, _)
read_strings(args, end, values) ==
    IF args.offset < end
    THEN LET str == next_string(args)
         IN IF ~str.res.ok THEN str
            ELSE read_strings(str.args, end, Append(values, str.res.val))
    ELSE Read(Ok(values), args)

next_string_array(args) ==
    LET total == next_u32(args)
    IN IF ~total.res.ok THEN total
       ELSE IF total.args.offset + total.res.val > Len(total.args.data)
       THEN Read(Err("OutOfRange"), total.args)
       ELSE read_strings(total.args, total.args.offset + total.res.val, <<>>)

\* the values tried: numbers with one, two and four significant bytes, the
\* empty string, a string with a two-byte char, the empty array, arrays with
\* an empty string
Value(type, num, str, arr) == [type |-> type, num |-> num, str |-> str, arr |-> arr]
ValueOf(v) ==
    IF v.type \in {"u32", "u64"} THEN v.num ELSE IF v.type = "string" THEN v.str ELSE v.arr
ArgValues ==
    {Value("u32", n, <<>>, <<>>) : n \in {0, 258, 16909060}}
    \cup {Value("u64", n, <<>>, <<>>) : n \in {42, 16909060}}
    \cup {Value("string", 0, x, <<>>) : x \in {<<>>, <<"a", "e-acute">>}}
    \cup {Value("string_array", 0, <<>>, x) :
             x \in {<<>>, <<<<>>>>, <<<<"a">>, <<>>, <<"e-acute">>>>}}
MaxArgs == 2
ArgLists == UNION {[1..n -> ArgValues] : n \in 0..MaxArgs}

add(args, v) ==
    IF v.type = "u32" THEN add_u32(args, v.num)
    ELSE IF v.type = "u64" THEN add_u64(args, v.num)
    ELSE IF v.type = "string" THEN add_string(args, v.str)
    ELSE add_string_array(args, v.arr)

next(args, type) ==
    IF type = "u32" THEN next_u32(args)
    ELSE IF type = "u64" THEN next_u64(args)
    ELSE IF type = "string" THEN next_string(args)
    ELSE next_string_array(args)

\* a writer about to add the values of call_in, in order
InitArgs ==
    /\ InitStoreWith({30}) /\ InitTasks /\ InitAuth /\ InitUpload /\ InitP2pQuiet
    /\ call_in \in {[op |-> "args", values |-> vs] : vs \in ArgLists}
    /\ call_out = [mode |-> "write", args |-> ArgsNew, added |-> 0, read |-> <<>>]

\* args.add_*(value) for the next value
ArgsAdd ==
    /\ call_out.mode = "write" /\ call_out.added < Len(call_in.values)
    /\ call_out' = [call_out EXCEPT
                       !.args = add(@, call_in.values[call_out.added + 1]),
                       !.added = @ + 1]
    /\ UNCHANGED <<call_in, storeVars, taskVars, authVars, uploadVars, p2pVars>>

\* Args::from_bytes(args.into_bytes())
ArgsIntoReader ==
    /\ call_out.mode = "write" /\ call_out.added = Len(call_in.values)
    /\ call_out' = [call_out EXCEPT !.mode = "read",
                                    !.args = from_bytes(call_out.args.data)]
    /\ UNCHANGED <<call_in, storeVars, taskVars, authVars, uploadVars, p2pVars>>

\* decoded.next_*() matching the next value
ArgsNext ==
    /\ call_out.mode = "read" /\ Len(call_out.read) < Len(call_in.values)
    /\ \E r \in {next(call_out.args, call_in.values[Len(call_out.read) + 1].type)} :
          call_out' = [call_out EXCEPT !.args = r.args, !.read = Append(@, r.res)]
    /\ UNCHANGED <<call_in, storeVars, taskVars, authVars, uploadVars, p2pVars>>

SpecArgs == InitArgs /\ [][ArgsAdd \/ ArgsIntoReader \/ ArgsNext]_vars

\* C25: reading the bytes produced by add_* calls with the matching next_*
\* calls in the same order returns the values added, and after the last read
\* the offset is at the end of the buffer.
C25_ArgsRoundTrip ==
    call_out.mode = "read" =>
        /\ \A i \in 1..Len(call_out.read) : call_out.read[i] = Ok(ValueOf(call_in.values[i]))
        /\ Len(call_out.read) = Len(call_in.values)
              => call_out.args.offset = Len(call_out.args.data)

\* an array holding an empty string and a two-byte char, then the empty
\* string, were written and read back
C25_Witness ==
    /\ call_out.mode = "read"
    /\ call_in.values = <<Value("string_array", 0, <<>>, <<<<"a">>, <<>>, <<"e-acute">>>>),
                           Value("string", 0, <<>>, <<>>)>>
    /\ Len(call_out.read) = 2
    /\ call_out.args.offset = 23

----------------------------------------------------------------------------
(* api.rs: the read endpoints next to POST /upload *)

\* binary_response(status, data): the bytes as application/octet-stream
binary_response(status) == [status |-> status, body |-> BinaryBody]

\* the match of get_by_namespace_id and get_by_id on Storage::get's result
get_response(fs, namespace, id) ==
    LET r == get(fs, namespace, id)
    IN IF r.ok THEN binary_response(200)
       ELSE IF r.err = "NotFound" THEN binary_response(404)
       ELSE binary_response(500)

\* api::list: Storage::list as the model has it returns Ok, the 500 arm
\* answers an I/O error of read_dir
list_response(d, fs, namespace) == [status |-> 200, body |-> JsonBody({})]

\* GET /data/{namespace}/{id}
GetByNamespaceId(namespace, id) ==
    /\ \E r \in {get_response(files, namespace, id)} :
          up_last' = [op |-> "get_by_namespace_id", namespace |-> namespace, id |-> id,
                      status |-> r.status, body |-> r.body]
    /\ UNCHANGED <<storeVars, upload_auth, taskVars, authVars, pureVars, p2pVars>>

\* GET /data/{id}
GetById(id) ==
    /\ \E r \in {get_response(files, DefaultNamespace, id)} :
          up_last' = [op |-> "get_by_id", namespace |-> DefaultNamespace, id |-> id,
                      status |-> r.status, body |-> r.body]
    /\ UNCHANGED <<storeVars, upload_auth, taskVars, authVars, pureVars, p2pVars>>

\* GET /data?namespace=..
ListData(namespace) ==
    /\ \E r \in {list_response(dirs, files, namespace)} :
          up_last' = [op |-> "list", namespace |-> namespace, id |-> <<>>,
                      status |-> r.status, body |-> r.body]
    /\ UNCHANGED <<storeVars, upload_auth, taskVars, authVars, pureVars, p2pVars>>

HttpNext ==
    \/ \E req \in ParamRequests \cup HeaderRequests, o \in UploadRpcOutcomes :
          Upload(req, o)
    \/ \E ns \in {DefaultNamespace, <<"d", "_">>}, id \in {UuidToken(0), <<"a">>} :
          GetByNamespaceId(ns, id)
    \/ \E id \in {UuidToken(0), <<"a">>} : GetById(id)
    \/ \E ns \in {None, Some(DefaultNamespace)} : ListData(ns)

SpecHttp == InitUploadSpec /\ [][HttpNext]_vars

\* C26: every response with a status of 400 or above carries a JSON body
\* with an `error` field.
C26_ErrorBodyIsJson ==
    (up_last.op # "none" /\ up_last.status >= 400)
        => (up_last.body.json /\ "error" \in up_last.body.fields)

\* C27: the peer table holds a record for p exactly when a connection to p
\* is established; taken whenever the event loop has handled every event
\* the swarm has delivered.
C27_RecordIffConnected ==
    ev_pc = "select" =>
        \A p \in env.peers :
            (\E r \in connected_peers : r.peer_id = p) <=> swarm_open[p] > 0

\* C28: no address is passed to swarm.dial twice, the dials of the startup
\* list and those of the discovery loop taken together.
C28_DialedAtMostOnce ==
    \A i, j \in 1..Len(dials) : dials[i] = dials[j] => i = j

\* the discovery loop is at an address it has to dial: a non-empty address
\* of another provider that is not in the known set
DialDue ==
    /\ disc_pc = "iter" /\ disc_todo # <<>>
    /\ Head(disc_todo).provider # MassaAddress
    /\ Head(disc_todo).addr # <<>>
    /\ Head(disc_todo).addr \notin known_addrs

\* C29: the known set only grows; the discovery loop goes on to dial exactly
\* when the address it visits is due, and has put the address into the known
\* set by then; a Dial command enters the channel only from that dial, for
\* that address; so no address is dialed twice by the loop, whether or not
\* the send succeeded.
C29_DiscoveryDialsOnce ==
    [][/\ known_addrs \subseteq known_addrs'
       /\ (disc_pc = "iter" /\ disc_todo # <<>>
              /\ <<disc_pc, disc_todo, known_addrs>>' # <<disc_pc, disc_todo, known_addrs>>)
            => /\ disc_pc' = "dial" <=> DialDue
               /\ DialDue => Head(disc_todo).addr \in known_addrs'
               /\ ~DialDue => known_addrs' = known_addrs
       /\ (disc_pc # "dial" /\ disc_pc' = "dial") => DialDue
       /\ cmd_chan' # cmd_chan /\ Len(cmd_chan') >= Len(cmd_chan)
            => /\ disc_pc = "dial"
               /\ Head(disc_todo).addr \in known_addrs
               /\ cmd_chan' = Append(cmd_chan, Head(disc_todo).addr)]_vars

\* the send of a dial failed because the receiver is gone; the address stays
\* in the known set and its second listing was passed over without a dial
C29_Witness ==
    /\ ev_pc = "failed"
    /\ known_addrs = {PeerAddr2}
    /\ cmd_chan = <<>>
    /\ disc_pc = "sleep"

\* C30: a provider query that fails issues no dial, leaves the known set
\* alone and sends the loop to its sleep, from which it starts the next
\* cycle; a query in which the metadata of one provider cannot be read goes
\* on with the visits of all the other providers.
C30_FailedCycleGoesOn ==
    /\ [](disc_pc \in {"query", "iter", "dial", "sleep"})
    /\ [][/\ (disc_pc = "query" /\ disc_pc' # "query")
               => /\ known_addrs' = known_addrs /\ cmd_chan' = cmd_chan
                  /\ \/ disc_pc' = "sleep" /\ disc_todo' = disc_todo
                     \/ /\ disc_pc' = "iter"
                        /\ \E u \in Unreadables(ProvidersNow) :
                              disc_todo' =
                                 Visits(SelectSeq(ProvidersNow,
                                                  LAMBDA x : x.address \notin u))
          /\ (disc_pc = "sleep" /\ disc_pc' # "sleep")
               => disc_pc' = "query" /\ known_addrs' = known_addrs]_vars

\* the metadata of AU2 could not be read in a cycle; the address of AU3,
\* listed after it, was dialed
C30_Witness ==
    /\ Len(env.providers) = 2
    /\ known_addrs = {PeerAddr3}
    /\ \E i \in 1..Len(dials) : dials[i] = PeerAddr3
    /\ disc_pc = "sleep"

----------------------------------------------------------------------------
(* Progress of the discovery loop.  The runtime runs every task that can     *)
(* take a step, so the steps of the event loop and of the discovery loop    *)
(* are weakly fair.  The return of get_all_providers is not: MassaClient is *)
(* built with reqwest::Client::new(), which sets no timeout, so the call    *)
(* returns only when the registry answers or the connection fails.          *)

SpecP2pFair ==
    /\ InitP2p /\ [][P2pNext]_vars
    /\ WF_vars(EvRecvCommand) /\ WF_vars(EvApply) /\ WF_vars(EvPublishDiscovered)
    /\ WF_vars(DiscVisit) /\ WF_vars(DiscDial) /\ WF_vars(DiscSleep)

\* C31: no registry call stalls its task forever: a discovery loop that has
\* made its provider query always gets on to the sleep that ends the cycle.
C31_QueryAlwaysReturns == (disc_pc = "query") ~> (disc_pc = "sleep")

\* C32: a node whose P2P task could not listen on its primary address
\* terminates: it answers no HTTP request and its discovery loop makes no
\* query.
C32_ListenFailureIsFatal ==
    ev_pc = "failed" =>
        /\ peers_pc = "idle" /\ peers_resp = NoResponse
        /\ disc_pc = "query" /\ known_addrs = {}

PeerIds(table) == {r.peer_id : r \in table}

\* C33: when the event loop has handled Identify(p, info), a record of p now
\* holds info's agent version and listen addresses, a peer without record
\* still has none, and the peers of the table, the records of the other
\* peers and the local listen addresses are as before.
C33_IdentifyFrame ==
    [][(ev_pc = "write" /\ ev_pc' # "write" /\ ev_event.kind = "Identify") =>
          LET p == ev_event.peer_id
              had == p \in PeerIds(connected_peers)
          IN /\ had => {r \in connected_peers' : r.peer_id = p}
                          = {PeerInfo(p, IdentifyInfo(p).listen_addrs,
                                      Some(IdentifyInfo(p).agent_version))}
             /\ ~had => connected_peers' = connected_peers
             /\ PeerIds(connected_peers') = PeerIds(connected_peers)
             /\ {r \in connected_peers' : r.peer_id # p}
                  = {r \in connected_peers : r.peer_id # p}
             /\ listen_addrs' = listen_addrs]_vars

\* two peers are connected; P1 has been identified, P2 has not
C33_Witness ==
    /\ ev_pc = "select"
    /\ PeerInfo("P1", IdentifyInfo("P1").listen_addrs,
                Some(IdentifyInfo("P1").agent_version)) \in connected_peers
    /\ \E r \in connected_peers : r.peer_id = "P2" /\ r.agent_version = None

LoopbackOrUnspecifiedHost(host) ==
    host \in {"0.0.0.0", "127.0.0.1", "localhost", "::1", "::"}

\* C35: the endpoint of a submitted register or update operation is never a
\* loopback or unspecified address: for a loopback or unspecified public
\* endpoint it is a discovered local network address that is no loopback, or
\* empty; for any other public endpoint it is the public endpoint.
C35_EndpointSubmitted ==
    \A i \in 1..Len(Writes(reg_ops)) :
        LET submitted == Writes(reg_ops)[i].endpoint
        IN /\ ~LoopbackOrUnspecifiedHost(submitted.host)
           /\ IF LoopbackOrUnspecifiedHost(env.public_endpoint.host)
              THEN \/ submitted = EmptyEndpoint
                   \/ /\ env.local_ip # None
                      /\ submitted = Endpoint(env.local_ip[1], BindPort)
              ELSE submitted = env.public_endpoint

\* the calls of the given name among ops
CallsOf(ops, name) == SelectSeq(ops, LAMBDA o : o.call = name)

\* C36: when the registration task has ended: after an 'is registered' query
\* that did not come back it has submitted no write; after one that was
\* answered with an execution error or with empty data it has submitted
\* exactly one register and no update; after one that found the node
\* registered and a metadata read that failed it has submitted exactly one
\* update and no register.
C36_ReadFailures ==
    (reg_pc = "done" /\ reg_ops # <<>>) =>
        /\ ~reg_ops[1].ok => Len(reg_ops) = 1
        /\ reg_registered = Some(FALSE)
             => /\ Len(CallsOf(reg_ops, "registerStorageNode")) = 1
                /\ Len(Writes(reg_ops)) = 1
        /\ (/\ reg_registered = Some(TRUE)
            /\ ~reg_ops[2].ok)
             => /\ Len(CallsOf(reg_ops, "updateProviderMetadata")) = 1
                /\ Len(Writes(reg_ops)) = 1

\* the registry holds the node's entry, the query was answered with an
\* execution error, and the task has ended after one register
C36_Witness ==
    /\ reg_pc = "done"
    /\ env.published0.registered
    /\ reg_registered = Some(FALSE)
    /\ Len(CallsOf(reg_ops, "registerStorageNode")) = 1

\* the files the store holds when the last put is made under a ceiling that
\* admits it
FilesIfPersisted ==
    put(total_size(files) + Len(last.data), dirs, files, last.namespace, last.id_hint,
        last.data, last.meta[1], last.meta[2], UuidToken(uuid_count)).files

\* C37: a put into a valid namespace fails with the quota error only if the
\* store's usage with the bytes persisted would exceed the ceiling.
C37_QuotaOnlyWhenOver ==
    (/\ last.op = "put"
     /\ last.res = Err("StorageLimitExceeded")
     /\ ensure_namespace(last.namespace).ok)
        => total_size(FilesIfPersisted) > storage_limit_bytes

\* C38: verify_upload_signature returns Ok for a signature of the key over
\* the digest of the body, and for a signature of the key over the digest of
\* the hex text of that digest.
C38_TwoSigningModes ==
    (/\ au_res # Err("pending")
     /\ WellFormed(au_in.signature, 64)
     /\ WellFormed(au_in.public_key, 32)
     /\ au_in.public_key.bytes.raw \in KeyIds
     /\ au_in.signature.bytes.raw
            \in {Sign(au_in.public_key.bytes.raw, blake3_hash(au_in.body)),
                 Sign(au_in.public_key.bytes.raw,
                      blake3_hash(hex_text(blake3_hash(au_in.body))))})
        => au_res = Ok("unit")

\* C39: verify_upload_signature returns InvalidEncoding when the key or the
\* signature text is no valid encoding or decodes to a wrong length; it
\* returns InvalidPublicKey or InvalidSignature only when both texts are well
\* formed, and VerificationFailed only when both are well formed and the key
\* is a valid key.
C39_ErrorTaxonomy ==
    au_res # Err("pending") =>
        LET well_formed == /\ WellFormed(au_in.signature, 64)
                           /\ WellFormed(au_in.public_key, 32)
        IN /\ ~well_formed => au_res = Err("InvalidEncoding")
           /\ au_res \in {Err("InvalidPublicKey"), Err("InvalidSignature")} => well_formed
           /\ au_res = Err("VerificationFailed")
                => well_formed /\ au_in.public_key.bytes.raw \in KeyIds

----------------------------------------------------------------------------
(* args.rs: next_string_array on buffers that no writer of Args has made *)

\* the largest value of a length prefix in the buffers tried
MaxDeclared == 6

\* the bytes that follow the first two u32 words of a buffer
ReadTails ==
    {<<>>, <<97>>, <<97, 97>>, <<195>>, <<1, 0, 0, 0>>, <<0, 0, 0, 0, 97>>,
     <<1, 0, 0, 0, 97, 97>>}

\* buffers handed to Args::from_bytes: too short for a prefix, a prefix alone,
\* and a declared total, the length prefix of a first string and a tail
ReadBuffers ==
    {<<>>, <<1, 0>>}
        \cup {to_le_bytes(t, 4) : t \in 0..MaxDeclared}
        \cup {to_le_bytes(t, 4) \o to_le_bytes(l, 4) \o tail :
                 t \in 0..MaxDeclared, l \in 0..MaxDeclared, tail \in ReadTails}

InitReadArray ==
    /\ InitStoreWith({30}) /\ InitTasks /\ InitAuth /\ InitUpload /\ InitP2pQuiet
    /\ call_in \in {[op |-> "next_string_array", data |-> b] : b \in ReadBuffers}
    /\ call_out = None

\* Args::from_bytes(data).next_string_array()
ReadArrayCall ==
    /\ call_in.op = "next_string_array" /\ call_out = None
    /\ call_out' = Some(next_string_array(from_bytes(call_in.data)))
    /\ UNCHANGED <<call_in, storeVars, taskVars, authVars, uploadVars, p2pVars>>

SpecReadArray == InitReadArray /\ [][ReadArrayCall]_vars

\* C40: a next_string_array that succeeds has consumed the 4-byte prefix and
\* the declared total, no more and no less, for every buffer.
C40_ConsumesDeclaredTotal ==
    (call_out # None /\ call_out[1].res.ok)
        => call_out[1].args.offset = 4 + from_le_bytes(SubSeq(call_in.data, 1, 4))

=============================================================================
